---- MODULE Spec2Model ----
(***************************************************************************)
(* A model of twanvl/snake: the grid utilities (util.hpp), the game        *)
(* (game.hpp), the Hamiltonian-cycle builder and the cycle repair          *)
(* (game_util.hpp, hamiltonian_cycle.hpp), the cell tree                   *)
(* (cell_tree_agent.hpp) and the flood fill (shortest_path.hpp).           *)
(*                                                                         *)
(* A Coord is a pair <<x, y>>, a Dir one of "up", "down", "left", "right", *)
(* a Grid<T> of dimensions d a function from Coords(d) to T, a CoordRange  *)
(* a pair <<w, h>>.                                                        *)
(***************************************************************************)
EXTENDS Integers, Sequences, FiniteSets, TLC

VARIABLES
  pc,         \* the position of the program that is running
  dims,       \* CoordRange of the game grid, <<w, h>>
  tree,       \* random_spanning_tree: Grid<Coord> of parents
  queue,      \* random_spanning_tree: vector of (parent, node) pairs
  path,       \* the GridPath returned by tree_to_hamiltonian_cycle
  arg,        \* the arguments of the call under check
  ret,        \* what the call returned
  grid,       \* GameBase::grid: true = contains part of the snake
  snake,      \* GameBase::snake, head first
  apple_pos,  \* GameBase::apple_pos
  turn,       \* Game::turn
  state,      \* Game::state: "playing", "loss" or "win"
  cycle,      \* DynamicHamiltonianCycleRepair::cycle
  cached_path, \* the agent's cached_path, the first step last
  last        \* the last tick: the head before it, the direction the agent
              \* returned, and how its repair attempt ended

treeVars == <<tree, queue, path>>

callVars == <<arg, ret>>

gameVars == <<grid, snake, apple_pos, turn, state>>

agentVars == <<cycle, cached_path, last>>

vars == <<pc, dims, tree, queue, path, arg, ret, grid, snake, apple_pos, turn, state, cycle, cached_path, last>>

\* ---------------------------------------------------------------- bounds

\* The W/2 x H/2 cell grids of the cycle builder have at most this many cells.
MaxTreeCells == 5

\* The grids that repair_cycle is called on have at most 4 * MaxRepairCells
\* coordinates (MaxRepairCells cells of 2 x 2).
MaxRepairCells == 4

\* The occupancy grids repair_cycle is called with have at most this many
\* occupied coordinates, or every coordinate occupied.
MaxMarked == 1

\* The grids the agents play on have at most this many cells of 2 x 2.
MaxGameCells == 4

\* The episodes are followed for this many turns.
MaxTurn == 7

\* The cell grids can_move_in_cell_tree is asked about have at most this many
\* cells.
MaxParentCells == 4

\* The snakes cell_tree_parents is applied to have at most this many
\* coordinates.
MaxSnake == 7

\* The grids flood_fill is applied to have at most this many coordinates.
MaxFillCells == 6

\* The grids the shortest path searches run on with edges of any cost have at
\* most this many coordinates, and at most MaxPathSide a side.
MaxPathCells == 4

MaxPathSide == 2

\* The open grids the shortest path searches run on have at most this many
\* coordinates.
MaxOpenCells == 8

\* The greatest finite cost of an edge.
MaxCost == 2

\* The grids the cell tree agent plays whole episodes on have at most this
\* many cells of 2 x 2, and at most MaxEpisodeSide cells a side.
MaxEpisodeCells == 4

MaxEpisodeSide == 2

\* The grids with an odd side have at most this many coordinates a side, and
\* the snakes on them at most MaxOddSnake coordinates.
MaxOddSide == 5

MaxOddSnake == 3

\* The episodes of the agent that takes shortcuts off its cycle are played on
\* grids of at most this many cells of 2 x 2.
MaxShortcutCells == 4

MaxShortcutSide == 2

\* Game::move is called with any directions on grids of at most this many
\* coordinates.
MaxMoveCells == 5

\* AgentLog::add is called at most MaxLogCalls times, with turns up to
\* MaxLogTurn.
MaxLogCalls == 3

MaxLogTurn == 2

\* unreachables is applied to grids of at most MaxUnreachableCells coordinates
\* with snakes of at most MaxUnreachableSnake coordinates.
MaxUnreachableCells == 4

MaxUnreachableSnake == 2

\* ------------------------------------------------------------- util.hpp

dirs == <<"up", "down", "left", "right">>

Dir == {"up", "down", "left", "right"}

NegDir(d) ==
  CASE d = "up"    -> "down"
    [] d = "down"  -> "up"
    [] d = "left"  -> "right"
    [] OTHER       -> "left"

rotate_clockwise(d) ==
  CASE d = "up"    -> "right"
    [] d = "down"  -> "left"
    [] d = "left"  -> "up"
    [] OTHER       -> "down"

rotate_counter_clockwise(d) ==
  CASE d = "up"    -> "left"
    [] d = "down"  -> "right"
    [] d = "left"  -> "down"
    [] OTHER       -> "up"

\* Coord operator + (Coord a, Dir dir)
CoordPlus(a, d) ==
  CASE d = "up"    -> <<a[1], a[2] - 1>>
    [] d = "down"  -> <<a[1], a[2] + 1>>
    [] d = "left"  -> <<a[1] - 1, a[2]>>
    [] OTHER       -> <<a[1] + 1, a[2]>>

\* Dir operator - (Coord a, Coord b): the direction from b to a; it throws
\* std::logic_error("Not a dir") when the two are not neighbours.
CoordMinus(a, b) ==
  IF a[1] = b[1] /\ a[2] = b[2] - 1 THEN "up"
  ELSE IF a[1] = b[1] /\ a[2] = b[2] + 1 THEN "down"
  ELSE IF a[1] # b[1] /\ a[2] = b[2] /\ a[1] = b[1] - 1 THEN "left"
  ELSE IF a[1] # b[1] /\ a[2] = b[2] /\ a[1] = b[1] + 1 THEN "right"
  ELSE "throw"

Abs(n) == IF n < 0 THEN -n ELSE n

manhattan_distance(a, b) == Abs(a[1] - b[1]) + Abs(a[2] - b[2])

is_neighbor(a, b) == manhattan_distance(a, b) = 1

INVALID == <<-1, -1>>

NOT_VISITED == <<-1, -1>>

ROOT == <<-2, -2>>

\* CoordRange::valid
Valid(d, a) == a[1] >= 0 /\ a[1] < d[1] /\ a[2] >= 0 /\ a[2] < d[2]

\* The coordinates a CoordRange iterates over.
Coords(d) == (0 .. d[1] - 1) \X (0 .. d[2] - 1)

\* CoordRange::size
Size(d) == d[1] * d[2]

\* Grid(range, init): the table of the W*H elements, each init.
NewGrid(d, init) == [c \in Coords(d) |-> init] @@ <<>>

\* ----------------------------------------------------------- game_util.hpp

\* Direction that stays inside the cell
cell_move_inside(c) ==
  IF c[2] % 2 = 0
  THEN IF c[1] % 2 = 0 THEN "down" ELSE "left"
  ELSE IF c[1] % 2 = 0 THEN "right" ELSE "up"

\* Direction that moves out of the cell
cell_move_outside(c) ==
  IF c[2] % 2 = 0
  THEN IF c[1] % 2 = 0 THEN "left" ELSE "up"
  ELSE IF c[1] % 2 = 0 THEN "down" ELSE "right"

is_cell_move(c, d) == cell_move_inside(c) = d \/ cell_move_outside(c) = d

\* C++ int division truncates toward zero; \div floors.
CDiv2(n) == IF n >= 0 THEN n \div 2 ELSE -((-n) \div 2)

cell(c) == <<CDiv2(c[1]), CDiv2(c[2])>>

\* The cell at position pos after i steps along p.
RECURSIVE Follow(_, _, _)
Follow(p, pos, i) == IF i = 0 THEN pos ELSE Follow(p, p[pos], i - 1)

\* is_hamiltonian_cycle: the loop from (0,0), at most path.size() steps.
\* It is only called on grids that hold the cell (0,0).
RECURSIVE is_hamiltonian_cycle_go(_, _, _, _)
is_hamiltonian_cycle_go(d, p, pos, i) ==
  IF i >= Size(d) THEN FALSE
  ELSE IF ~Valid(d, p[pos]) THEN FALSE
  ELSE IF ~is_neighbor(pos, p[pos]) THEN FALSE
  ELSE IF p[pos] = <<0, 0>> THEN i = Size(d) - 1
  ELSE is_hamiltonian_cycle_go(d, p, p[pos], i + 1)

is_hamiltonian_cycle(d, p) == is_hamiltonian_cycle_go(d, p, <<0, 0>>, 0)

\* tree_to_hamiltonian_cycle_at with the test of the tree edge looking one way
\* only (the cell being the parent of the cell outside is forgotten).
tree_to_hamiltonian_cycle_at_oneway(cd, parent, c) ==
  LET pd     == <<cd[1] * 2, cd[2] * 2>>
      in     == CoordPlus(c, cell_move_inside(c))
      outc   == CoordPlus(c, cell_move_outside(c))
      c_cell == cell(c)
      o_cell == cell(outc)
  IN  IF Valid(pd, outc) /\ parent[c_cell] = o_cell THEN outc ELSE in

\* One cell of tree_to_hamiltonian_cycle: the outside move when the tree joins
\* the two cells, the inside move otherwise.
tree_to_hamiltonian_cycle_at(cd, parent, c) ==
  LET pd     == <<cd[1] * 2, cd[2] * 2>>
      in     == CoordPlus(c, cell_move_inside(c))
      outc   == CoordPlus(c, cell_move_outside(c))
      c_cell == cell(c)
      o_cell == cell(outc)
  IN  IF Valid(pd, outc) /\ (parent[o_cell] = c_cell \/ parent[c_cell] = o_cell)
      THEN outc ELSE in

\* Make a Hamiltonian cycle given a w/2 * h/2 tree (game_util.hpp)
tree_to_hamiltonian_cycle(cd, parent) ==
  [c \in Coords(<<cd[1] * 2, cd[2] * 2>>) |-> tree_to_hamiltonian_cycle_at(cd, parent, c)]

\* The same function as hamiltonian_cycle.hpp writes it, with the four parities
\* spelled out.
tree_to_hamiltonian_cycle_hc_at(cd, parent, c) ==
  LET pd == <<cd[1] * 2, cd[2] * 2>>
      x  == c[1]
      y  == c[2]
      outc == CASE x % 2 = 1 /\ y % 2 = 0 -> CoordPlus(c, "up")
                [] x % 2 = 0 /\ y % 2 = 1 -> CoordPlus(c, "down")
                [] x % 2 = 0 /\ y % 2 = 0 -> CoordPlus(c, "left")
                [] OTHER                  -> CoordPlus(c, "right")
      in   == CASE x % 2 = 1 /\ y % 2 = 0 -> CoordPlus(c, "left")
                [] x % 2 = 0 /\ y % 2 = 1 -> CoordPlus(c, "right")
                [] x % 2 = 0 /\ y % 2 = 0 -> CoordPlus(c, "down")
                [] OTHER                  -> CoordPlus(c, "up")
      c_cell == <<CDiv2(x), CDiv2(y)>>
      o_cell == <<CDiv2(outc[1]), CDiv2(outc[2])>>
  IN  IF Valid(pd, outc) /\ (parent[o_cell] = c_cell \/ parent[c_cell] = o_cell)
      THEN outc ELSE in

tree_to_hamiltonian_cycle_hc(cd, parent) ==
  [c \in Coords(<<cd[1] * 2, cd[2] * 2>>) |-> tree_to_hamiltonian_cycle_hc_at(cd, parent, c)]

\* The cell grid random_hamiltonian_cycle hands to random_spanning_tree.
CellDims(d) == <<CDiv2(d[1]), CDiv2(d[2])>>

\* for (auto d : dirs) if (tree.valid(node+d)) queue.push_back({node, node+d});
RECURSIVE PushEdges(_, _, _, _)
PushEdges(cd, q, node, i) ==
  IF i > Len(dirs) THEN q
  ELSE LET b == CoordPlus(node, dirs[i])
       IN  PushEdges(cd, IF Valid(cd, b) THEN Append(q, <<node, b>>) ELSE q, node, i + 1)

\* queue[i] = queue.back(); queue.pop_back();   (i is 1-based here)
SwapRemove(q, i) ==
  LET q1 == [q EXCEPT ![i] = q[Len(q)]]
  IN  SubSeq(q1, 1, Len(q) - 1)

\* step in reverse path; "throw" stands for std::logic_error
path_from(d, p, to) ==
  IF to[1] > 0 /\ p[<<to[1] - 1, to[2]>>] = to THEN <<to[1] - 1, to[2]>>
  ELSE IF to[1] < d[1] - 1 /\ p[<<to[1] + 1, to[2]>>] = to THEN <<to[1] + 1, to[2]>>
  ELSE IF to[2] > 0 /\ p[<<to[1], to[2] - 1>>] = to THEN <<to[1], to[2] - 1>>
  ELSE IF to[2] < d[2] - 1 /\ p[<<to[1], to[2] + 1>>] = to THEN <<to[1], to[2] + 1>>
  ELSE "throw"

\* for (Coord x = d; x != a; x = next[x]) cycle1[x] = true;  cycle1[a] = true;
\* as the set of the coordinates marked. n counts the steps left: on a cycle
\* the loop ends within Size steps.
RECURSIVE mark_cycle1(_, _, _, _)
mark_cycle1(p, x, a, n) ==
  IF x = a \/ n = 0 THEN {a} ELSE {x} \cup mark_cycle1(p, p[x], a, n - 1)

\* can_join without the test that u and v lie on the part of the cycle that
\* holds d and a.
can_join_any_part(d, occ, p, cycle1, u, v) ==
  /\ Valid(d, u) /\ Valid(d, v)
  /\ p[u] = v
  /\ ~occ[u] /\ ~occ[v]

\* can_join without the test that u and v are free.
can_join_occupied(d, occ, p, cycle1, u, v) ==
  /\ Valid(d, u) /\ Valid(d, v)
  /\ u \in cycle1 /\ v \in cycle1
  /\ p[u] = v

\* The test of one pair u, v beside x -> y in repair_cycle.
can_join(d, occ, p, cycle1, u, v) ==
  /\ Valid(d, u) /\ Valid(d, v)
  /\ u \in cycle1 /\ v \in cycle1
  /\ p[u] = v
  /\ ~occ[u] /\ ~occ[v]

\* rewire without next[c] = b: the part broken off is left open.
rewire_without_cb(p, a, b, c, dd, x, y, u, v) ==
  LET p1 == [p EXCEPT ![a] = dd]
      p3 == [p1 EXCEPT ![x] = v]
  IN  [p3 EXCEPT ![u] = y]

\* The four assignments of a successful repair, in the code's order.
rewire(p, a, b, c, dd, x, y, u, v) ==
  LET p1 == [p EXCEPT ![a] = dd]
      p2 == [p1 EXCEPT ![c] = b]
      p3 == [p2 EXCEPT ![x] = v]
  IN  [p3 EXCEPT ![u] = y]

\* A give_up that has already redirected next[a] and does not undo it.
give_up_dirty(p, a, dd) == [ok |-> FALSE, next |-> [p EXCEPT ![a] = dd]]

\* return false: the GridPath is as it was on entry.
give_up(p, a, dd) == [ok |-> FALSE, next |-> p]

\* for (Coord x=b; x!=c; x=next[x]): the first x -> y with a pair u -> v beside
\* it, clockwise side first. Returns what repair_cycle returns from there on.
RECURSIVE repair_scan(_, _, _, _, _, _, _, _, _)
repair_scan(d, occ, p, cycle1, a, b, c, dd, x) ==
  IF x = c THEN give_up(p, a, dd)
  ELSE
    LET y  == p[x]
        xy == CoordMinus(y, x)
        d1 == rotate_clockwise(xy)
        d2 == rotate_counter_clockwise(xy)
        u1 == CoordPlus(y, d1)
        v1 == CoordPlus(x, d1)
        u2 == CoordPlus(y, d2)
        v2 == CoordPlus(x, d2)
    IN  IF can_join(d, occ, p, cycle1, u1, v1)
        THEN [ok |-> TRUE, next |-> rewire(p, a, b, c, dd, x, y, u1, v1)]
        ELSE IF can_join(d, occ, p, cycle1, u2, v2)
        THEN [ok |-> TRUE, next |-> rewire(p, a, b, c, dd, x, y, u2, v2)]
        ELSE repair_scan(d, occ, p, cycle1, a, b, c, dd, y)

\* Change a Hamiltonian cycle to have next[a] == d. The result holds what the
\* call returned (ok) and the GridPath as the call left it (next).
repair_cycle(d, occ, p, a, dd) ==
  IF p[a] = dd THEN [ok |-> TRUE, next |-> p]
  ELSE
    LET b == p[a]
        c == path_from(d, p, dd)
    IN  IF c # "throw" /\ is_neighbor(b, c)
        THEN repair_scan(d, occ, p, mark_cycle1(p, dd, a, Size(d)), a, b, c, dd, b)
        ELSE give_up(p, a, dd)

\* ------------------------------------------------- the cycle builder runs

TreeIdle == tree = <<>> /\ queue = <<>> /\ path = <<>>

CallIdle == arg = <<>> /\ ret = <<>>

GameIdle ==
  /\ grid = <<>> /\ snake = <<>> /\ apple_pos = <<>> /\ turn = 0 /\ state = "none"
  /\ cycle = <<>> /\ cached_path = <<>> /\ last = <<>>

\* The even grids of the builder.
TreeDims ==
  {<<2 * cw, 2 * ch>> : <<cw, ch>> \in
     {p \in (1 .. MaxTreeCells) \X (1 .. MaxTreeCells) : p[1] * p[2] <= MaxTreeCells}}

\* random_spanning_tree up to its loop: a random root and its edges.
InitTree ==
  /\ dims \in TreeDims
  /\ \E node \in Coords(CellDims(dims)) :
       /\ tree = [NewGrid(CellDims(dims), INVALID) EXCEPT ![node] = ROOT]
       /\ queue = PushEdges(CellDims(dims), <<>>, node, 1)
  /\ path = <<>>
  /\ pc = "random_spanning_tree"
  /\ CallIdle
  /\ GameIdle

\* One turn of random_spanning_tree's loop with the random pick i.
rst_step ==
  /\ pc = "random_spanning_tree"
  /\ queue # <<>>
  /\ \E i \in 1 .. Len(queue) :
       LET parent == queue[i][1]
           node   == queue[i][2]
           q1     == SwapRemove(queue, i)
       IN  IF tree[node] = INVALID
           THEN /\ tree' = [tree EXCEPT ![node] = parent]
                /\ queue' = PushEdges(CellDims(dims), q1, node, 1)
           ELSE /\ tree' = tree
                /\ queue' = q1
  /\ UNCHANGED <<pc, dims, path, callVars, gameVars, agentVars>>

\* The loop is over: random_hamiltonian_cycle returns
\* tree_to_hamiltonian_cycle(tree), as game_util.hpp defines it.
rst_return ==
  /\ pc = "random_spanning_tree"
  /\ queue = <<>>
  /\ path' = tree_to_hamiltonian_cycle(CellDims(dims), tree)
  /\ pc' = "done"
  /\ UNCHANGED <<dims, tree, queue, callVars, gameVars, agentVars>>

\* The same return through hamiltonian_cycle.hpp's definition.
rst_return_hc ==
  /\ pc = "random_spanning_tree"
  /\ queue = <<>>
  /\ path' = tree_to_hamiltonian_cycle_hc(CellDims(dims), tree)
  /\ pc' = "done_hc"
  /\ UNCHANGED <<dims, tree, queue, callVars, gameVars, agentVars>>

NextTree == rst_step \/ rst_return \/ rst_return_hc

SpecTree == InitTree /\ [][NextTree]_vars

\* -------------------------------------------------------------- claims

\* The n coordinates reached from pos by following p: p[pos], p[p[pos]], ...
RECURSIVE Orbit(_, _, _)
Orbit(p, pos, n) == IF n = 0 THEN <<>> ELSE <<p[pos]>> \o Orbit(p, p[pos], n - 1)

\* A next-cell map p over the grid d is one cycle through all cells: every
\* step goes to a 4-neighbour inside the grid, and from every start the first
\* W*H cells reached are pairwise distinct (so they are all the cells) and the
\* last of them is the start.
HamiltonianFrom(d, p, start) ==
  LET orbit == Orbit(p, start, Size(d))
      reached == {orbit[i] : i \in 1 .. Size(d)}
  IN  /\ reached = Coords(d)
      /\ Cardinality(reached) = Size(d)
      /\ orbit[Size(d)] = start

SingleCycle(d, p) ==
  /\ DOMAIN p = Coords(d)
  /\ \A c \in Coords(d) : Valid(d, p[c]) /\ is_neighbor(c, p[c])
  /\ \A start \in Coords(d) : HamiltonianFrom(d, p, start)

\* C1: for every even W and H and every sequence of random picks, the map
\* random_hamiltonian_cycle returns steps to 4-neighbours inside the grid only,
\* and following it from any start visits all W*H cells exactly once and is back
\* at the start after exactly W*H steps.
C1_BuilderReturnsHamiltonianCycle ==
  pc \in {"done", "done_hc"} =>
    /\ SingleCycle(dims, path)
    /\ is_hamiltonian_cycle(dims, path)

\* A 4x4 or larger cycle has been returned, so the tree had a choice of edges.
C1_Witness ==
  /\ pc = "done"
  /\ dims[1] >= 4 /\ dims[2] >= 4
  /\ \E c \in DOMAIN tree : tree[c] # ROOT /\ tree[c][1] # c[1]
  /\ \E c \in DOMAIN tree : tree[c] # ROOT /\ tree[c][2] # c[2]

\* ---------------------------------------------------- repair_cycle, called

\* The self-avoiding walks of n coordinates from (0,0), as sequences.
RECURSIVE WalksFromOrigin(_, _)
WalksFromOrigin(d, n) ==
  IF n = 1 THEN {<< <<0, 0>> >>}
  ELSE UNION { { Append(w, c) : c \in { e \in Coords(d) :
                                          /\ is_neighbor(w[Len(w)], e)
                                          /\ \A i \in 1 .. Len(w) : w[i] # e } }
               : w \in WalksFromOrigin(d, n - 1) }

\* Every Hamiltonian cycle of the grid d, as a next-cell map.
HamiltonianCycles(d) ==
  { [c \in Coords(d) |->
       LET i == CHOOSE k \in 1 .. Len(w) : w[k] = c
       IN  IF i = Len(w) THEN w[1] ELSE w[i + 1]] @@ <<>>
    : w \in { v \in WalksFromOrigin(d, Size(d)) : is_neighbor(v[Len(v)], v[1]) } }

\* The even grids of at most MaxRepairCells cells of 2 x 2.
RepairDims ==
  {<<2 * cw, 2 * ch>> : <<cw, ch>> \in
     {p \in (1 .. MaxRepairCells) \X (1 .. MaxRepairCells) : p[1] * p[2] <= MaxRepairCells}}

\* The subsets of S of at most k elements.
RECURSIVE SmallSubsets(_, _)
SmallSubsets(S, k) ==
  IF k = 0 THEN {{}}
  ELSE LET prev == SmallSubsets(S, k - 1)
       IN  prev \cup {T \cup {c} : T \in prev, c \in S}

\* The occupancy grids: few coordinates occupied, or all of them.
MarkedGrids(d) ==
  LET few == SmallSubsets(Coords(d), MaxMarked)
  IN  {[c \in Coords(d) |-> c \in S] : S \in few}
        \cup {[c \in Coords(d) |-> TRUE]}

\* A call repair_cycle(grid, next, a, d) that meets the two assertions at its
\* head: a and d are neighbours, next is a Hamiltonian cycle.
InitRepair ==
  /\ dims \in RepairDims
  /\ \E p \in HamiltonianCycles(dims), g \in MarkedGrids(dims),
        a \in Coords(dims), dd \in Coords(dims) :
       /\ is_neighbor(a, dd)
       /\ arg = [grid |-> g, next |-> p, a |-> a, d |-> dd]
  /\ ret = <<>>
  /\ pc = "repair_cycle"
  /\ TreeIdle
  /\ GameIdle

call_repair_cycle ==
  /\ pc = "repair_cycle"
  /\ ret' = repair_cycle(dims, arg.grid, arg.next, arg.a, arg.d)
  /\ pc' = "returned"
  /\ UNCHANGED <<dims, treeVars, arg, gameVars, agentVars>>

NextRepair == call_repair_cycle

SpecRepair == InitRepair /\ [][NextRepair]_vars

\* C2: whenever repair_cycle(grid, next, a, d) returns true, next is again a
\* single cycle through all W*H cells with every step to a 4-neighbour (the
\* assertion at the end of repair_cycle holds as well), and next[a] = d.
C2_RepairSuccessKeepsCycle ==
  (pc = "returned" /\ ret.ok) =>
    /\ SingleCycle(dims, ret.next)
    /\ is_hamiltonian_cycle(dims, ret.next)
    /\ ret.next[arg.a] = arg.d

\* A repair that changed the cycle has returned true.
C2_Witness ==
  /\ pc = "returned"
  /\ ret.ok
  /\ ret.next # arg.next
  /\ \E c \in Coords(dims) : arg.grid[c]

\* C3: whenever repair_cycle returns false, every entry of next is what it was
\* before the call.
C3_RepairFailureLeavesCycle ==
  (pc = "returned" /\ ~ret.ok) => ret.next = arg.next

\* A failed repair whose broken-off part would have closed: next[a] and the
\* predecessor of d are neighbours, and no pair beside the part could join it.
C3_Witness ==
  /\ pc = "returned"
  /\ ~ret.ok
  /\ dims = <<4, 4>>
  /\ is_neighbor(arg.next[arg.a], path_from(dims, arg.next, arg.d))

\* ------------------------------------------------------ shortest_path.hpp

\* The dist of a Step no path has reached.
INT_MAX == 2147483647

Step(n, a) == [dist |-> n, from |-> a]

\* bound with the distance to the target counted three times.
bound_tripled(min_distance_cost, a, to) ==
  3 * min_distance_cost * (Abs(a[1] - to[1]) + Abs(a[2] - to[2]))

\* The lambda bound in astar_shortest_path.
bound(min_distance_cost, a, to) ==
  min_distance_cost * (Abs(a[1] - to[1]) + Abs(a[2] - to[2]))

\* The items of the priority queue that top() may return: std::priority_queue
\* orders by dist alone and leaves the order among equal dists open.
top(q) == {it \in q : \A other \in q : it.dist <= other.dist}

\* The search in progress is the triple <<out, queue, done>>; done is set once
\* the while loop is left.
search_out(s) == s[1]

search_queue(s) == s[2]

search_done(s) == s[3]

\* The loop over dirs for the item popped at a, from direction number i on.
\* An item is pushed only when it lowers out[b].dist, so the queue never holds
\* one item twice and is kept as a set.
RECURSIVE astar_relax(_, _, _, _, _, _, _)
astar_relax(d, edges, to, min_distance_cost, s, a, i) ==
  IF i > Len(dirs) THEN s
  ELSE
    LET b == CoordPlus(a, dirs[i])
    IN  IF ~Valid(d, b)
        THEN astar_relax(d, edges, to, min_distance_cost, s, a, i + 1)
        ELSE
          LET edge == edges[<<a, dirs[i]>>]
              new_dist == search_out(s)[a].dist + edge
          IN  IF edge # INT_MAX /\ new_dist < search_out(s)[b].dist
              THEN astar_relax(d, edges, to, min_distance_cost,
                     <<[search_out(s) EXCEPT ![b] = Step(new_dist, a)],
                       search_queue(s) \cup
                         {[c |-> b, dist |-> new_dist + bound(min_distance_cost, b, to)]},
                       FALSE>>,
                     a, i + 1)
              ELSE astar_relax(d, edges, to, min_distance_cost, s, a, i + 1)

\* One round of the while loop of astar_shortest_path, for every item top()
\* may return.
astar_pop(d, edges, to, min_distance_cost, s) ==
  IF search_queue(s) = {} THEN {<<search_out(s), {}, TRUE>>}
  ELSE {IF item.c = to
          THEN <<search_out(s), search_queue(s) \ {item}, TRUE>>
          ELSE astar_relax(d, edges, to, min_distance_cost,
                           <<search_out(s), search_queue(s) \ {item}, FALSE>>, item.c, 1)
        : item \in top(search_queue(s))}

RECURSIVE astar_loop(_, _, _, _, _)
astar_loop(d, edges, to, min_distance_cost, S) ==
  IF \A s \in S : search_done(s) THEN {search_out(s) : s \in S}
  ELSE astar_loop(d, edges, to, min_distance_cost,
         UNION {IF search_done(s) THEN {s}
                ELSE astar_pop(d, edges, to, min_distance_cost, s)
                : s \in S})

\* astar_shortest_path: the set of the grids it can return, one for every
\* order in which the queue may hand out items of equal dist. edges is the
\* function from <<coordinate, direction>> to the cost of that edge.
astar_shortest_path(d, edges, from, to, min_distance_cost) ==
  astar_loop(d, edges, to, min_distance_cost,
    {<<[NewGrid(d, Step(INT_MAX, INVALID)) EXCEPT ![from].dist = 0],
       {[c |-> from, dist |-> 0 + bound(min_distance_cost, from, to)]},
       FALSE>>})

\* read_path: the coordinates from to back to from, from excluded, to first
\* and the first step last. n counts the steps left.
RECURSIVE read_path(_, _, _, _)
read_path(paths, from, to, n) ==
  IF to = ROOT \/ to = from \/ n = 0 THEN <<>>
  ELSE IF to = NOT_VISITED THEN <<to>>
  ELSE <<to>> \o read_path(paths, from, paths[to].from, n - 1)

back(v) == v[Len(v)]

\* ------------------------------------------------- game_util.hpp: lookahead

GameBase(g, s, apple) == [grid |-> g, snake |-> s, apple_pos |-> apple]

snake_pos(game) == game.snake[1]

\* The loop of after_moves for the two lookaheads that walk the whole path, from
\* the path's element number i down to its front.
RECURSIVE after_moves_many(_, _, _, _, _)
after_moves_many(game, after, p, i, lookahead) ==
  IF i = 0 THEN after
  ELSE
    LET c == p[i]
        pushed == [after EXCEPT !.grid[c] = TRUE, !.snake = <<c>> \o @]
    IN  after_moves_many(game,
          IF lookahead = "many_move_tail" /\ c # game.apple_pos
          THEN [pushed EXCEPT !.grid[back(pushed.snake)] = FALSE,
                              !.snake = SubSeq(@, 1, Len(@) - 1)]
          ELSE pushed,
          p, i - 1, lookahead)

\* assert(is_neighbor(path.back(), game.snake_pos())) at the head of
\* after_moves; an empty path has no back().
after_moves_assert(game, p) == p # <<>> /\ is_neighbor(back(p), snake_pos(game))

\* An after_moves that looks one move ahead whatever lookahead is asked for.
after_moves_one(game, p, lookahead) ==
  [game EXCEPT !.grid[back(p)] = TRUE, !.snake = <<back(p)>> \o @]

\* after_moves, past its assertion.
after_moves(game, p, lookahead) ==
  IF lookahead = "one"
  THEN [game EXCEPT !.grid[back(p)] = TRUE, !.snake = <<back(p)>> \o @]
  ELSE after_moves_many(game, game, p, Len(p), lookahead)

\* ----------------------------- hamiltonian_cycle.hpp: the repairing agent

\* cycle_distances: the do-while loop, from c on; n counts the rounds left.
RECURSIVE cycle_distances_go(_, _, _, _, _, _)
cycle_distances_go(cyc, goal, c, dist, dists, n) ==
  LET c2 == cyc[c]
      dists2 == [dists EXCEPT ![c2] = dist]
  IN  IF c2 = goal \/ n = 0 THEN dists2
      ELSE cycle_distances_go(cyc, goal, c2, dist - 1, dists2, n - 1)

cycle_distances(d, cyc, goal) ==
  cycle_distances_go(cyc, goal, goal, Size(d) - 1, NewGrid(d, 0), Size(d))

\* The lambda edge of DynamicHamiltonianCycleRepair::operator(), tabulated
\* over the pairs astar_shortest_path asks for (those with to inside the grid).
dhcr_edge(d, game, cycle_distance) ==
  [e \in Coords(d) \X Dir |->
     LET to == CoordPlus(e[1], e[2])
     IN  IF Valid(d, to) /\ ~game.grid[to]
         THEN 1000000 + cycle_distance[to]
         ELSE INT_MAX]

\* What one call of the agent can end in: the direction returned and the cycle
\* it leaves, or a stop (a failed assertion, an exception, an access outside a
\* container).
Stopped(cyc, a) ==
  [stopped |-> TRUE, cycle |-> cyc, pos |-> a, step |-> INVALID,
   repair |-> "none", dir |-> "none"]

\* The agent returning the direction of the first step of the path instead of
\* the direction of the cycle.
Returned_along_path(cyc, a, b, r) ==
  IF is_neighbor(b, a)
  THEN [stopped |-> FALSE, cycle |-> cyc, pos |-> a, step |-> b,
        repair |-> r, dir |-> CoordMinus(b, a)]
  ELSE Stopped(cyc, a)

Returned(cyc, a, b, r) ==
  IF is_neighbor(cyc[a], a)
  THEN [stopped |-> FALSE, cycle |-> cyc, pos |-> a, step |-> b,
        repair |-> r, dir |-> CoordMinus(cyc[a], a)]
  ELSE Stopped(cyc, a)

\* operator() after the search, for one grid dists the search returned.
\* cached_path is never filled and recalculate_path is true, so the cache
\* branch is never taken.
dhcr_step(d, cyc, game, dists) ==
  LET pos == snake_pos(game)
      goal == game.apple_pos
      p == read_path(dists, pos, goal, Size(d) + 1)
  IN  IF p = <<>> THEN Stopped(cyc, pos)
      ELSE IF cyc[pos] = back(p) THEN Returned(cyc, pos, back(p), "none")
      ELSE IF ~after_moves_assert(game, p) THEN Stopped(cyc, pos)
      ELSE IF ~is_hamiltonian_cycle(d, cyc) THEN Stopped(cyc, pos)
      ELSE
        LET after == after_moves(game, p, "one")
            r == repair_cycle(d, after.grid, cyc, pos, back(p))
        IN  Returned(r.next, pos, back(p), IF r.ok THEN "ok" ELSE "failed")

\* DynamicHamiltonianCycleRepair::operator(): every outcome it can have.
dhcr(d, cyc, game) ==
  LET pos == snake_pos(game)
      goal == game.apple_pos
      cycle_distance == cycle_distances(d, cyc, goal)
      edges == dhcr_edge(d, game, cycle_distance)
  IN  {dhcr_step(d, cyc, game, dists) :
         dists \in astar_shortest_path(d, edges, pos, goal, 1000000)}

\* ---------------------------------------------------------------- game.hpp

\* Game::random_free_coord: the coordinates it can return.
random_free_coord(d, g) == {c \in Coords(d) : ~g[c]}

\* Game::move(dir), past its test of state: the Event it returns.
move_event(dir) ==
  LET next == CoordPlus(snake[1], dir)
  IN  IF ~Valid(dims, next) \/ grid[next] THEN "lose"
      ELSE IF turn + 1 > Size(dims) * Size(dims) THEN "lose"
      ELSE IF next = apple_pos THEN "eat"
      ELSE "move"

\* Game::move(dir)
move(dir) ==
  IF state # "playing" THEN UNCHANGED gameVars
  ELSE
    LET next == CoordPlus(snake[1], dir)
        event == move_event(dir)
    IN  /\ turn' = turn + 1
        /\ IF event = "lose"
           THEN state' = "loss" /\ UNCHANGED <<grid, snake, apple_pos>>
           ELSE IF event = "eat"
           THEN /\ snake' = <<next>> \o snake
                /\ grid' = [grid EXCEPT ![next] = TRUE]
                /\ IF Len(snake) + 1 = Size(dims)
                   THEN state' = "win" /\ apple_pos' = apple_pos
                   ELSE state' = state /\ apple_pos' \in random_free_coord(dims, grid')
           ELSE /\ snake' = <<next>> \o SubSeq(snake, 1, Len(snake) - 1)
                /\ grid' = [grid EXCEPT ![next] = TRUE, ![back(snake)] = FALSE]
                /\ UNCHANGED <<state, apple_pos>>

\* ------------------------------------------- episodes played by the agent

\* The even grids of at most MaxGameCells cells of 2 x 2.
GameDims ==
  {<<2 * cw, 2 * ch>> : <<cw, ch>> \in
     {p \in (1 .. MaxGameCells) \X (1 .. MaxGameCells) : p[1] * p[2] <= MaxGameCells}}

NoTick ==
  [pos |-> INVALID, step |-> INVALID, repair |-> "none", dir |-> "none",
   event |-> "none"]

\* Game::Game with any start and any apple, and an agent constructed with any
\* Hamiltonian cycle of the grid.
InitDhcr ==
  /\ dims \in GameDims
  /\ cycle \in HamiltonianCycles(dims)
  /\ \E start \in Coords(dims) :
       /\ snake = <<start>>
       /\ grid = [NewGrid(dims, FALSE) EXCEPT ![start] = TRUE]
  /\ apple_pos \in random_free_coord(dims, grid)
  /\ turn = 0
  /\ state = "playing"
  /\ cached_path = <<>>
  /\ last = NoTick
  /\ pc = "play"
  /\ TreeIdle
  /\ CallIdle

\* One round of the play loop: game.move(agent(game)).
play_dhcr ==
  /\ pc = "play"
  /\ state = "playing"
  /\ \E r \in dhcr(dims, cycle, GameBase(grid, snake, apple_pos)) :
       IF r.stopped
       THEN /\ pc' = "stopped"
            /\ UNCHANGED <<dims, treeVars, callVars, gameVars, agentVars>>
       ELSE /\ cycle' = r.cycle
            /\ cached_path' = cached_path
            /\ last' = [pos |-> r.pos, step |-> r.step, repair |-> r.repair,
                        dir |-> r.dir, event |-> move_event(r.dir)]
            /\ move(r.dir)
            /\ UNCHANGED <<pc, dims, treeVars, callVars>>

\* The first MaxTurn rounds of the episodes from every start.
play_dhcr_first_turns == turn < MaxTurn /\ play_dhcr

NextDhcr == play_dhcr_first_turns

SpecDhcr == InitDhcr /\ [][NextDhcr]_vars

\* A tree random_spanning_tree can return: the root is cell (0,0), the parent
\* of a cell is the cell to its left, in the first column the cell above.
comb_tree(cd) ==
  [c \in Coords(cd) |->
     IF c = <<0, 0>> THEN ROOT
     ELSE IF c[1] > 0 THEN <<c[1] - 1, c[2]>>
     ELSE <<0, c[2] - 1>>]

\* The episode that starts in the corner (0,0) with the apple in the opposite
\* corner and the cycle random_hamiltonian_cycle builds around comb_tree.
InitDhcrEpisode ==
  /\ dims \in GameDims
  /\ cycle = tree_to_hamiltonian_cycle(CellDims(dims), comb_tree(CellDims(dims)))
  /\ snake = << <<0, 0>> >>
  /\ grid = [NewGrid(dims, FALSE) EXCEPT ![<<0, 0>>] = TRUE]
  /\ apple_pos = <<dims[1] - 1, dims[2] - 1>>
  /\ turn = 0
  /\ state = "playing"
  /\ cached_path = <<>>
  /\ last = NoTick
  /\ pc = "play"
  /\ TreeIdle
  /\ CallIdle

\* The episode is played to its end, whatever apples random_free_coord gives.
NextDhcrEpisode == play_dhcr

SpecDhcrEpisode == InitDhcrEpisode /\ [][NextDhcrEpisode]_vars

\* C4: in every state of an episode played by DynamicHamiltonianCycleRepair,
\* started with a Hamiltonian cycle, the agent's cycle is a single cycle
\* through all W*H cells whose every step goes to a 4-neighbour, whether the
\* repairs before succeeded or failed.
C4_AgentCycleStaysHamiltonian ==
  /\ \A c \in Coords(dims) : Valid(dims, cycle[c]) /\ is_neighbor(c, cycle[c])
  /\ HamiltonianFrom(dims, cycle, snake[1])
  /\ is_hamiltonian_cycle(dims, cycle)

\* A repair has just succeeded late in an episode on the 4 x 4 grid, the snake
\* covering more than half of it.
C4_Witness ==
  /\ dims = <<4, 4>>
  /\ last.repair = "ok"
  /\ Len(snake) >= 9

\* C5: at every tick the agent returns a direction: the one from the head to
\* cycle[head] for the cycle as the tick's repair attempt left it, cycle[head]
\* being a 4-neighbour of the head; and when the repair failed the cycle is
\* the one from before the tick, so the move is the old cycle's move.
C5_DirectionFollowsCycle ==
  [][LET pos == snake[1]
     IN  /\ pc' = "play"
         /\ last'.pos = pos
         /\ is_neighbor(cycle'[pos], pos)
         /\ last'.dir = CoordMinus(cycle'[pos], pos)
         /\ last'.repair = "failed" =>
              cycle' = cycle /\ last'.dir = CoordMinus(cycle[pos], pos)
         /\ last'.repair = "none" => cycle' = cycle]_vars

\* A repair has just failed and the snake moved on along the old cycle.
C5_Witness ==
  /\ dims = <<4, 4>>
  /\ last.repair = "failed"
  /\ last.dir # CoordMinus(last.step, last.pos)
  /\ last.event = "move"

\* C6: in an episode started from a snake of length 1 the cell the agent sends
\* the head to is inside the grid and free at every tick, and Game::move never
\* reports a loss.
C6_AgentNeverCollides ==
  [][LET next == CoordPlus(snake[1], last'.dir)
     IN  /\ pc' = "play"
         /\ Valid(dims, next)
         /\ ~grid[next]
         /\ last'.event # "lose"
         /\ state' # "loss"]_vars

\* A whole episode on the 4 x 4 grid, from the snake of length 1 to the win,
\* with repairs on the way (the cycle is no longer the one it started with).
C6_Witness ==
  /\ state = "win"
  /\ dims = <<4, 4>>
  /\ Len(snake) = 16
  /\ cycle # tree_to_hamiltonian_cycle(CellDims(dims), comb_tree(CellDims(dims)))

\* ------------------------------------------------------ cell_tree_agent.hpp

\* can_move_in_tree_cell with the two directions of the coordinate (0,0) of a
\* cell taken to be left and up.
can_move_in_tree_cell_turned(x, y, dir) ==
  IF x = 1 /\ y = 0 THEN dir = "up" \/ dir = "left"
  ELSE IF x = 0 /\ y = 1 THEN dir = "down" \/ dir = "right"
  ELSE IF x = 0 /\ y = 0 THEN dir = "left" \/ dir = "up"
  ELSE IF x = 1 /\ y = 1 THEN dir = "right" \/ dir = "up"
  ELSE FALSE

can_move_in_tree_cell(x, y, dir) ==
  IF x = 1 /\ y = 0 THEN dir = "up" \/ dir = "left"
  ELSE IF x = 0 /\ y = 1 THEN dir = "down" \/ dir = "right"
  ELSE IF x = 0 /\ y = 0 THEN dir = "left" \/ dir = "down"
  ELSE IF x = 1 /\ y = 1 THEN dir = "right" \/ dir = "up"
  ELSE FALSE

\* C++ int remainder has the sign of the dividend.
CMod2(n) == IF n >= 0 THEN n % 2 ELSE -((-n) % 2)

\* can_move_in_cell_tree without its last test: no way back to the parent.
can_move_in_cell_tree_no_parent(cell_parents, a, b, dir) ==
  IF ~can_move_in_tree_cell(CMod2(a[1]), CMod2(a[2]), dir) THEN FALSE
  ELSE
    LET cell_a == cell(a)
        cell_b == cell(b)
    IN  cell_b = cell_a \/ cell_parents[cell_b] = NOT_VISITED

\* can you move from a to b?
can_move_in_cell_tree(cell_parents, a, b, dir) ==
  IF ~can_move_in_tree_cell(CMod2(a[1]), CMod2(a[2]), dir) THEN FALSE
  ELSE
    LET cell_a == cell(a)
        cell_b == cell(b)
    IN  \/ cell_b = cell_a
        \/ cell_parents[cell_b] = NOT_VISITED
        \/ cell_parents[cell_a] = cell_b

\* ----------------------------------------- questions to can_move_in_cell_tree

\* The even grids of at most MaxParentCells cells of 2 x 2.
ParentDims ==
  {<<2 * cw, 2 * ch>> : <<cw, ch>> \in
     {p \in (1 .. MaxParentCells) \X (1 .. MaxParentCells) : p[1] * p[2] <= MaxParentCells}}

\* The parent grids over the cell grid cd: every cell is not visited, the root,
\* or has a 4-adjacent cell as its parent (any number of roots, cycles allowed).
ParentGrids(cd) ==
  {f \in [Coords(cd) -> {NOT_VISITED, ROOT} \cup Coords(cd)] :
     \A c \in Coords(cd) : f[c] \in Coords(cd) => is_neighbor(f[c], c)}

\* A question can_move_in_cell_tree(cell_parents, a, a + dir, dir) with a and
\* a + dir inside the grid, as astar_shortest_path and flood_fill ask them.
InitCanMove ==
  /\ dims \in ParentDims
  /\ tree \in ParentGrids(CellDims(dims))
  /\ \E a \in Coords(dims), dir \in Dir :
       /\ Valid(dims, CoordPlus(a, dir))
       /\ arg = [a |-> a, b |-> CoordPlus(a, dir), dir |-> dir]
  /\ ret = <<>>
  /\ pc = "can_move_in_cell_tree"
  /\ queue = <<>>
  /\ path = <<>>
  /\ GameIdle

call_can_move_in_cell_tree ==
  /\ pc = "can_move_in_cell_tree"
  /\ ret' = [legal |-> can_move_in_cell_tree(tree, arg.a, arg.b, arg.dir)]
  /\ pc' = "asked"
  /\ UNCHANGED <<dims, treeVars, arg, gameVars, agentVars>>

\* The head takes the legal move into a cell not visited before: in the parent
\* grid cell_tree_parents computes next, that cell's parent is the cell of a.
enter_cell ==
  /\ pc = "asked"
  /\ ret.legal
  /\ tree[cell(arg.b)] = NOT_VISITED
  /\ tree' = [tree EXCEPT ![cell(arg.b)] = cell(arg.a)]
  /\ pc' = "entered"
  /\ UNCHANGED <<dims, queue, path, callVars, gameVars, agentVars>>

NextCanMove == call_can_move_in_cell_tree \/ enter_cell

SpecCanMove == InitCanMove /\ [][NextCanMove]_vars

\* C7 as stated: after a legal move a -> b into a cell not visited and the
\* marking of that cell with parent cell(a), the move b -> a in the opposite
\* direction is legal.
C7_ReverseMoveLegal ==
  pc = "entered" => can_move_in_cell_tree(tree, arg.b, arg.a, NegDir(arg.dir))

\* C7: after a legal move a -> b into another cell that was not visited, and
\* the marking of that cell with parent cell(a), the move b -> a itself is not
\* legal (the opposite direction is no cell move of b), and the way back into
\* the parent cell is legal from the one coordinate of b's cell whose outward
\* direction is the opposite direction.
C7_RetraceThroughOtherLane ==
  pc = "entered" /\ cell(arg.b) # cell(arg.a) =>
    LET back_dir == NegDir(arg.dir)
        lanes == {c \in Coords(dims) :
                    cell(c) = cell(arg.b) /\ cell_move_outside(c) = back_dir}
    IN  /\ ~can_move_in_cell_tree(tree, arg.b, arg.a, back_dir)
        /\ Cardinality(lanes) = 1
        /\ \A c \in lanes :
             /\ c # arg.b
             /\ Valid(dims, CoordPlus(c, back_dir))
             /\ cell(CoordPlus(c, back_dir)) = cell(arg.a)
             /\ can_move_in_cell_tree(tree, c, CoordPlus(c, back_dir), back_dir)

\* The head has entered a new cell from a cell that has a parent of its own.
C7_Witness ==
  /\ pc = "entered"
  /\ cell(arg.b) # cell(arg.a)
  /\ tree[cell(arg.a)] \in Coords(CellDims(dims))

\* C8: for a and b = a + dir inside the grid, can_move_in_cell_tree is true
\* exactly when dir is cell_move_inside(a) or cell_move_outside(a) and b's cell
\* is a's cell, or is not visited, or is the parent recorded for a's cell; so
\* it never lets the snake into a visited cell other than a's own cell and the
\* parent of a's cell.
C8_LegalMoveCharacterised ==
  pc = "asked" =>
    LET cell_a == cell(arg.a)
        cell_b == cell(arg.b)
    IN  /\ ret.legal <=>
             /\ arg.dir = cell_move_inside(arg.a) \/ arg.dir = cell_move_outside(arg.a)
             /\ \/ cell_b = cell_a
                \/ tree[cell_b] = NOT_VISITED
                \/ tree[cell_a] = cell_b
        /\ ret.legal /\ cell_b # cell_a /\ tree[cell_b] # NOT_VISITED =>
             tree[cell_a] = cell_b

\* A legal move back into the visited parent cell.
C8_Witness ==
  /\ pc = "asked"
  /\ ret.legal
  /\ cell(arg.b) # cell(arg.a)
  /\ tree[cell(arg.b)] # NOT_VISITED
  /\ tree[cell(arg.a)] = cell(arg.b)

\* ------------------------------------------------------- cell_tree_parents

\* The loop of cell_tree_parents with the test for NOT_VISITED left out: the
\* parent of a cell is overwritten at every coordinate of the snake.
RECURSIVE cell_tree_parents_overwriting(_, _, _, _)
cell_tree_parents_overwriting(s, i, parent, parents) ==
  IF i = 0 THEN parents
  ELSE cell_tree_parents_overwriting(s, i - 1, cell(s[i]),
                                     [parents EXCEPT ![cell(s[i])] = parent])

\* The loop of cell_tree_parents, from the snake's element number i (the tail
\* has the highest number) to its head.
RECURSIVE cell_tree_parents_go(_, _, _, _)
cell_tree_parents_go(s, i, parent, parents) ==
  IF i = 0 THEN parents
  ELSE
    LET cell_coord == cell(s[i])
    IN  cell_tree_parents_go(s, i - 1, cell_coord,
          IF parents[cell_coord] = NOT_VISITED
          THEN [parents EXCEPT ![cell_coord] = parent]
          ELSE parents)

\* Find current tree (represented as parent pointers)
cell_tree_parents(d, s) ==
  cell_tree_parents_go(s, Len(s), ROOT,
                       NewGrid(<<CDiv2(d[1]), CDiv2(d[2])>>, NOT_VISITED))

\* A snake of one coordinate anywhere on the grid.
InitCellTree ==
  /\ dims \in ParentDims
  /\ \E c \in Coords(dims) : snake = <<c>>
  /\ pc = "snake"
  /\ TreeIdle
  /\ CallIdle
  /\ grid = <<>> /\ apple_pos = <<>> /\ turn = 0 /\ state = "none"
  /\ cycle = <<>> /\ cached_path = <<>> /\ last = <<>>

\* snake.push_front(next) for any neighbour next of the head inside the grid.
extend_snake ==
  /\ pc = "snake"
  /\ Len(snake) < MaxSnake
  /\ \E dir \in Dir :
       /\ Valid(dims, CoordPlus(snake[1], dir))
       /\ snake' = <<CoordPlus(snake[1], dir)>> \o snake
  /\ UNCHANGED <<pc, dims, treeVars, callVars, grid, apple_pos, turn, state, agentVars>>

call_cell_tree_parents ==
  /\ pc = "snake"
  /\ tree' = cell_tree_parents(dims, snake)
  /\ pc' = "cell_tree_parents"
  /\ UNCHANGED <<dims, queue, path, callVars, gameVars, agentVars>>

NextCellTree == extend_snake \/ call_cell_tree_parents

SpecCellTree == InitCellTree /\ [][NextCellTree]_vars

\* The cells from c up the parent pointers to the first cell marked ROOT, at
\* most n steps.
RECURSIVE ParentChain(_, _, _)
ParentChain(parents, c, n) ==
  IF parents[c] = ROOT \/ parents[c] = NOT_VISITED \/ n = 0 THEN <<c>>
  ELSE <<c>> \o ParentChain(parents, parents[c], n - 1)

\* C9: for a snake whose consecutive coordinates are 4-adjacent,
\* cell_tree_parents marks the tail's cell ROOT and no other cell; the visited
\* cells are exactly the cells that hold a coordinate of the snake; the parent
\* of every other visited cell is a visited 4-adjacent cell; and the parent
\* pointers lead from every visited cell to the ROOT cell without passing a
\* cell twice.
C9_ParentsFormTreeRootedAtTail ==
  pc = "cell_tree_parents" =>
    LET cd == CellDims(dims)
        visited == {c \in Coords(cd) : tree[c] # NOT_VISITED}
        tail == snake[Len(snake)]
    IN  /\ DOMAIN tree = Coords(cd)
        /\ {c \in visited : tree[c] = ROOT} = {cell(tail)}
        /\ visited = {cell(snake[i]) : i \in 1 .. Len(snake)}
        /\ \A c \in visited :
             tree[c] # ROOT => tree[c] \in visited /\ is_neighbor(tree[c], c)
        /\ \A c \in visited :
             LET chain == ParentChain(tree, c, Cardinality(visited))
             IN  /\ chain[Len(chain)] = cell(tail)
                 /\ Cardinality({chain[i] : i \in 1 .. Len(chain)}) = Len(chain)

\* A snake that lies in three cells and has come back into a cell it left.
C9_Witness ==
  /\ pc = "cell_tree_parents"
  /\ Cardinality({c \in Coords(CellDims(dims)) : tree[c] # NOT_VISITED}) >= 3
  /\ \E i, j, k \in 1 .. Len(snake) :
       /\ i < j /\ j < k
       /\ cell(snake[i]) = cell(snake[k])
       /\ cell(snake[j]) # cell(snake[i])

\* -------------------------------------------- shortest_path.hpp: flood fill

\* The argument can_move of flood_fill is the set of the pairs <<a, dir>> for
\* which can_move(a, a + dir, dir) is true.

\* The first while loop of flood_fill_go with the test of can_move left out.
RECURSIVE scan_left_unchecked(_, _, _, _)
scan_left_unchecked(marks, can_move, min_x, y) ==
  IF min_x > 0 /\ ~marks[<<min_x - 1, y>>]
  THEN scan_left_unchecked(marks, can_move, min_x - 1, y)
  ELSE min_x

\* find left/rightmost points: the first while loop of flood_fill_go
RECURSIVE scan_left(_, _, _, _)
scan_left(marks, can_move, min_x, y) ==
  IF min_x > 0 /\ <<<<min_x, y>>, "left">> \in can_move /\ ~marks[<<min_x - 1, y>>]
  THEN scan_left(marks, can_move, min_x - 1, y)
  ELSE min_x

\* the second while loop of flood_fill_go
RECURSIVE scan_right(_, _, _, _, _)
scan_right(d, marks, can_move, max_x, y) ==
  IF /\ max_x + 1 < d[1]
     /\ <<<<max_x, y>>, "right">> \in can_move
     /\ ~marks[<<max_x + 1, y>>]
  THEN scan_right(d, marks, can_move, max_x + 1, y)
  ELSE max_x

\* std::fill(&out[Coord{min_x,y}], &out[Coord{max_x,y}]+1, true): the elements
\* of a row lie side by side.
fill_row(marks, min_x, max_x, y) ==
  [c \in DOMAIN marks |-> marks[c] \/ (c[2] = y /\ min_x <= c[1] /\ c[1] <= max_x)] @@ <<>>

\* flood_fill_go(out, can_move, a) and its for loop over the row just marked,
\* from column x on; side tells whether the test upwards or the test downwards
\* comes next. r holds out and the number of calls of flood_fill_go so far.
\* A statement of the loop is complete before the next one starts: the value
\* it leaves is drawn from the set of that one value, and the rest of the loop
\* is computed from it.
RECURSIVE flood_fill_go(_, _, _, _)
RECURSIVE flood_fill_for(_, _, _, _, _, _, _)
flood_fill_for(d, r, can_move, x, max_x, y, side) ==
  IF x > max_x THEN r
  ELSE IF side = "up"
  THEN CHOOSE out \in
         { flood_fill_for(d, r1, can_move, x, max_x, y, "down") :
             r1 \in { IF y > 0 /\ <<<<x, y>>, "up">> \in can_move /\ ~r.marks[<<x, y - 1>>]
                      THEN flood_fill_go(d, r, can_move, <<x, y - 1>>)
                      ELSE r } } : TRUE
  ELSE CHOOSE out \in
         { flood_fill_for(d, r1, can_move, x + 1, max_x, y, "up") :
             r1 \in { IF y + 1 < d[2] /\ <<<<x, y>>, "down">> \in can_move /\ ~r.marks[<<x, y + 1>>]
                      THEN flood_fill_go(d, r, can_move, <<x, y + 1>>)
                      ELSE r } } : TRUE

flood_fill_go(d, r, can_move, a) ==
  LET y == a[2]
      min_x == scan_left(r.marks, can_move, a[1], y)
      max_x == scan_right(d, r.marks, can_move, a[1], y)
  IN  CHOOSE out \in
        { flood_fill_for(d, r1, can_move, min_x, max_x, y, "up") :
            r1 \in { [marks |-> fill_row(r.marks, min_x, max_x, y), calls |-> r.calls + 1] } } : TRUE

\* flood_fill(dims, can_move, from): the bitmap returned, with the number of
\* calls of flood_fill_go it took.
flood_fill(d, can_move, from) ==
  flood_fill_go(d, [marks |-> NewGrid(d, FALSE), calls |-> 0], can_move, from)

\* The grids of at most MaxFillCells coordinates, of any width and height.
FillDims ==
  {p \in (1 .. MaxFillCells) \X (1 .. MaxFillCells) : p[1] * p[2] <= MaxFillCells}

\* The pairs <<a, dir>> flood_fill may ask can_move about.
Edges(d) == {e \in Coords(d) \X Dir : Valid(d, CoordPlus(e[1], e[2]))}

\* A call flood_fill(dims, can_move, from) for any predicate, symmetric or not.
InitFloodFill ==
  /\ dims \in FillDims
  /\ \E cm \in SUBSET Edges(dims), from \in Coords(dims) :
       arg = [can_move |-> cm, from |-> from]
  /\ ret = <<>>
  /\ pc = "flood_fill"
  /\ TreeIdle
  /\ GameIdle

call_flood_fill ==
  /\ pc = "flood_fill"
  /\ ret' = flood_fill(dims, arg.can_move, arg.from)
  /\ pc' = "filled"
  /\ UNCHANGED <<dims, treeVars, arg, gameVars, agentVars>>

NextFloodFill == call_flood_fill

SpecFloodFill == InitFloodFill /\ [][NextFloodFill]_vars

\* The coordinates a chain of permitted steps leads to from the set S: what a
\* breadth first search over the directed edges finds.
RECURSIVE Reachable(_, _)
Reachable(can_move, S) ==
  LET next == S \cup {CoordPlus(e[1], e[2]) : e \in {f \in can_move : f[1] \in S}}
  IN  IF next = S THEN S ELSE Reachable(can_move, next)

\* C10: for every grid, start and predicate can_move, directed or not,
\* flood_fill marks exactly the coordinates that a chain of permitted steps
\* from the start leads to, and the recursion ends: flood_fill_go is entered
\* at most once per coordinate marked.
C10_FloodFillMarksReachable ==
  pc = "filled" =>
    LET reached == Reachable(arg.can_move, {arg.from})
    IN  /\ DOMAIN ret.marks = Coords(dims)
        /\ \A c \in Coords(dims) : ret.marks[c] <=> c \in reached
        /\ ret.calls >= 1
        /\ ret.calls <= Cardinality(reached)

\* A fill over one-way edges that takes several calls, reaches a coordinate by
\* an edge that has no way back, and leaves a coordinate out.
C10_Witness ==
  /\ pc = "filled"
  /\ dims[1] >= 2 /\ dims[2] >= 2
  /\ ret.calls >= 3
  /\ \E c \in Coords(dims) : ~ret.marks[c]
  /\ \E e \in arg.can_move :
       /\ ret.marks[e[1]]
       /\ <<CoordPlus(e[1], e[2]), NegDir(e[2])>> \notin arg.can_move

\* ----------------------------------- shortest_path.hpp: astar_shortest_path

PathDims ==
  {p \in (1 .. MaxPathSide) \X (1 .. MaxPathSide) : p[1] * p[2] <= MaxPathCells}

OpenDims ==
  {p \in (1 .. MaxOpenCells) \X (1 .. MaxOpenCells) : p[1] * p[2] <= MaxOpenCells}

\* The costs an edge function may return when no finite cost is below
\* min_distance_cost: the least, the greatest, and INT_MAX for no edge.
Costs(min_distance_cost) == {min_distance_cost, MaxCost, INT_MAX}

\* A call astar_shortest_path(dims, edges, from, to, min_distance_cost): on a
\* small grid with any edge function, or on an open grid where every edge
\* costs min_distance_cost.
InitAstar ==
  /\ \E k \in 1 .. MaxCost :
       \/ /\ dims \in PathDims
          /\ \E e \in [Edges(dims) -> Costs(k)], from \in Coords(dims), to \in Coords(dims) :
               arg = [edges |-> e, from |-> from, to |-> to, min_distance_cost |-> k]
       \/ /\ dims \in OpenDims
          /\ \E from \in Coords(dims), to \in Coords(dims) :
               arg = [edges |-> [e \in Edges(dims) |-> k] @@ <<>>,
                      from |-> from, to |-> to, min_distance_cost |-> k]
  /\ ret = <<>>
  /\ pc = "astar_shortest_path"
  /\ TreeIdle
  /\ GameIdle

call_astar_shortest_path ==
  /\ pc = "astar_shortest_path"
  /\ ret' \in astar_shortest_path(dims, arg.edges, arg.from, arg.to, arg.min_distance_cost)
  /\ pc' = "searched"
  /\ UNCHANGED <<dims, treeVars, arg, gameVars, agentVars>>

NextAstar == call_astar_shortest_path

SpecAstar == InitAstar /\ [][NextAstar]_vars

\* The table dist after n more rounds of relaxing every edge.
RECURSIVE Relax(_, _, _, _)
Relax(d, edges, dist, n) ==
  IF n = 0 THEN dist
  ELSE
    LET via(c) == {dist[CoordPlus(c, dir)] + edges[<<CoordPlus(c, dir), NegDir(dir)>>] :
                     dir \in {f \in Dir : /\ Valid(d, CoordPlus(c, f))
                                          /\ dist[CoordPlus(c, f)] # INT_MAX
                                          /\ edges[<<CoordPlus(c, f), NegDir(f)>>] # INT_MAX}}
        least(S) == CHOOSE m \in S : \A o \in S : m <= o
    IN  Relax(d, edges, [c \in Coords(d) |-> least({dist[c]} \cup via(c))] @@ <<>>, n - 1)

\* The least cost of a path from the source to every coordinate, INT_MAX where
\* there is none: a path without a loop has fewer edges than the grid has
\* coordinates.
MinCost(d, edges, from) ==
  Relax(d, edges, [c \in Coords(d) |-> IF c = from THEN 0 ELSE INT_MAX] @@ <<>>, Size(d))

\* The cost of the path the from pointers of paths lead back along from c to
\* the source, -1 when they do not lead to the source by edges within n steps.
RECURSIVE PointerCost(_, _, _, _, _, _)
PointerCost(d, edges, paths, from, c, n) ==
  IF c = from THEN 0
  ELSE IF n = 0 \/ ~Valid(d, paths[c].from) THEN -1
  ELSE IF ~is_neighbor(paths[c].from, c) THEN -1
  ELSE
    LET p == paths[c].from
        edge == edges[<<p, CoordMinus(c, p)>>]
        rest == PointerCost(d, edges, paths, from, p, n - 1)
    IN  IF edge = INT_MAX \/ rest < 0 THEN -1 ELSE rest + edge

\* C11: when every finite cost is at least min_distance_cost >= 1 and the
\* target can be reached, out[to].dist is the least cost of a path from the
\* source to the target, the from pointers lead from the target back to the
\* source along a path of that cost, and with every edge at cost
\* min_distance_cost the dist is the Manhattan distance times that cost.
C11_AstarFindsLeastCost ==
  pc = "searched" =>
    LET least == MinCost(dims, arg.edges, arg.from)[arg.to]
    IN  least # INT_MAX =>
          /\ ret[arg.to].dist = least
          /\ PointerCost(dims, arg.edges, ret, arg.from, arg.to, Size(dims)) = least
          /\ (\A e \in Edges(dims) : arg.edges[e] = arg.min_distance_cost) =>
               ret[arg.to].dist =
                 manhattan_distance(arg.from, arg.to) * arg.min_distance_cost

\* The least cost lies above what the bound promises, and the straight way to
\* the target is closed or dearer than the way found.
C11_Witness ==
  /\ pc = "searched"
  /\ ret[arg.to].dist # INT_MAX
  /\ ret[arg.to].dist > bound(arg.min_distance_cost, arg.from, arg.to)
  /\ manhattan_distance(arg.from, arg.to) >= 1
  /\ \E e \in Edges(dims) : arg.edges[e] = INT_MAX
  /\ \E e \in Edges(dims) : arg.edges[e] = MaxCost /\ MaxCost > arg.min_distance_cost

\* ---------------------------------- shortest_path.hpp: generic_shortest_path

\* The argument can_move is the set of the pairs <<a, dir>> for which
\* can_move(a, a + dir, dir) is true, as for flood_fill.

\* The test in the loops of generic_shortest_path with can_move left out.
gsp_found_unasked(d, can_move, out, a, dir, dist) ==
  /\ Valid(d, CoordPlus(a, dir))
  /\ out[CoordPlus(a, dir)].dist > dist

\* dims.valid(b) && can_move(a,b,d) && out[b].dist > dist
gsp_found(d, can_move, out, a, dir, dist) ==
  /\ Valid(d, CoordPlus(a, dir))
  /\ <<a, dir>> \in can_move
  /\ out[CoordPlus(a, dir)].dist > dist

\* The two for loops of generic_shortest_path over the queue and over dirs,
\* from the queue's element number i and the direction number j on. The result
\* is <<out, next, returned>>; returned tells that b == to has ended the call.
RECURSIVE gsp_for(_, _, _, _, _, _, _, _, _)
gsp_for(d, can_move, to, out, q, next, i, j, dist) ==
  IF i > Len(q) THEN <<out, next, FALSE>>
  ELSE IF j > Len(dirs) THEN gsp_for(d, can_move, to, out, q, next, i + 1, 1, dist)
  ELSE
    LET a == q[i]
        b == CoordPlus(a, dirs[j])
    IN  IF gsp_found(d, can_move, out, a, dirs[j], dist)
        THEN IF b = to
             THEN <<[out EXCEPT ![b] = Step(dist, a)], Append(next, b), TRUE>>
             ELSE gsp_for(d, can_move, to, [out EXCEPT ![b] = Step(dist, a)],
                          q, Append(next, b), i, j + 1, dist)
        ELSE gsp_for(d, can_move, to, out, q, next, i, j + 1, dist)

\* The while loop of generic_shortest_path; dist is its value before dist++.
RECURSIVE gsp_while(_, _, _, _, _, _)
gsp_while(d, can_move, to, out, q, dist) ==
  IF q = <<>> THEN out
  ELSE
    LET r == gsp_for(d, can_move, to, out, q, <<>>, 1, 1, dist + 1)
    IN  IF r[3] THEN r[1]
        ELSE gsp_while(d, can_move, to, r[1], r[2], dist + 1)

\* generic_shortest_path(dims, can_move, from, to); to = <<-1, -1>> stands for
\* a call without a target.
generic_shortest_path(d, can_move, from, to) ==
  gsp_while(d, can_move, to,
            [NewGrid(d, Step(INT_MAX, NOT_VISITED)) EXCEPT ![from] = Step(0, ROOT)],
            <<from>>, 0)

\* The lambda of shortest_path(grid, from, to): a step is permitted when its
\* target holds no part of the snake. occ is the set of the coordinates where
\* grid is true.
shortest_path_can_move(d, occ) ==
  {e \in Edges(d) : CoordPlus(e[1], e[2]) \notin occ}

\* A source and a predicate can_move: of any kind on a small grid, or the one
\* of shortest_path for any occupancy of a larger grid.
InitBfs ==
  /\ \/ /\ dims \in PathDims
        /\ \E cm \in SUBSET Edges(dims), from \in Coords(dims) :
             arg = [can_move |-> cm, from |-> from, to |-> INVALID]
     \/ /\ dims \in OpenDims
        /\ \E occ \in SUBSET Coords(dims), from \in Coords(dims) :
             arg = [can_move |-> shortest_path_can_move(dims, occ),
                    from |-> from, to |-> INVALID]
  /\ ret = <<>>
  /\ pc = "generic_shortest_path"
  /\ TreeIdle
  /\ GameIdle

\* A call without a target.
call_generic_shortest_path ==
  /\ pc = "generic_shortest_path"
  /\ ret' = generic_shortest_path(dims, arg.can_move, arg.from, INVALID)
  /\ pc' = "searched all"
  /\ UNCHANGED <<dims, treeVars, arg, gameVars, agentVars>>

\* A call with a target.
call_generic_shortest_path_to ==
  /\ pc = "generic_shortest_path"
  /\ \E to \in Coords(dims) :
       /\ arg' = [arg EXCEPT !.to = to]
       /\ ret' = generic_shortest_path(dims, arg.can_move, arg.from, to)
  /\ pc' = "searched to"
  /\ UNCHANGED <<dims, treeVars, gameVars, agentVars>>

NextBfs == call_generic_shortest_path \/ call_generic_shortest_path_to

SpecBfs == InitBfs /\ [][NextBfs]_vars

\* The pairs <<c, n>> of the coordinates first reached from the set F in the
\* n-th round, for the rounds from n on; seen holds F and what was reached
\* before.
RECURSIVE StepsTo(_, _, _, _)
StepsTo(can_move, F, seen, n) ==
  IF F = {} THEN {}
  ELSE
    LET next == {CoordPlus(e[1], e[2]) : e \in {f \in can_move : f[1] \in F}} \ seen
    IN  {<<c, n>> : c \in F} \cup StepsTo(can_move, next, seen \cup next, n + 1)

\* C13: after a call without a target every coordinate that can_move steps
\* lead to from the source has the least number of steps as dist and, the
\* source apart, a predecessor at dist - 1 from which can_move permits the
\* step; the source has dist 0; every other coordinate has dist INT_MAX.
\* After a call with a target the target's dist is its least number of steps.
C13_BfsDistancesAreLeast ==
  LET steps == StepsTo(arg.can_move, {arg.from}, {arg.from}, 0)
  IN  /\ pc = "searched all" =>
           /\ DOMAIN ret = Coords(dims)
           /\ ret[arg.from].dist = 0
           /\ \A p \in steps :
                /\ ret[p[1]].dist = p[2]
                /\ p[1] # arg.from =>
                     /\ Valid(dims, ret[p[1]].from)
                     /\ ret[ret[p[1]].from].dist = p[2] - 1
                     /\ is_neighbor(ret[p[1]].from, p[1])
                     /\ <<ret[p[1]].from, CoordMinus(p[1], ret[p[1]].from)>> \in arg.can_move
           /\ \A c \in Coords(dims) \ {p[1] : p \in steps} : ret[c].dist = INT_MAX
      /\ pc = "searched to" =>
           /\ \A p \in steps : p[1] = arg.to => ret[arg.to].dist = p[2]
           /\ arg.to \notin {p[1] : p \in steps} => ret[arg.to].dist = INT_MAX

\* A search without a target over one-way edges that leaves a coordinate
\* unreached and reaches another by a way around, longer than the straight
\* way.
C13_Witness ==
  /\ pc = "searched all"
  /\ \E c \in Coords(dims) : ret[c].dist = INT_MAX
  /\ \E c \in Coords(dims) :
       /\ ret[c].dist # INT_MAX
       /\ ret[c].dist > manhattan_distance(arg.from, c)

\* ------------------------------------------- shortest_path.hpp: read_path

\* The edge function that gives every step can_move permits the cost 1.
unit_edges(d, can_move) ==
  [e \in Edges(d) |-> IF e \in can_move THEN 1 ELSE INT_MAX] @@ <<>>

\* A source, a target and a predicate can_move, as for generic_shortest_path.
InitReadPath ==
  /\ \/ /\ dims \in PathDims
        /\ \E cm \in SUBSET Edges(dims), from \in Coords(dims), to \in Coords(dims) :
             arg = [can_move |-> cm, from |-> from, to |-> to]
     \/ /\ dims \in OpenDims
        /\ \E occ \in SUBSET Coords(dims), from \in Coords(dims), to \in Coords(dims) :
             arg = [can_move |-> shortest_path_can_move(dims, occ),
                    from |-> from, to |-> to]
  /\ ret = <<>>
  /\ pc = "search"
  /\ TreeIdle
  /\ GameIdle

\* The distance table of generic_shortest_path, searched with or without the
\* target.
table_generic_shortest_path ==
  /\ pc = "search"
  /\ \E target \in {arg.to, INVALID} :
       ret' = generic_shortest_path(dims, arg.can_move, arg.from, target)
  /\ pc' = "read_path"
  /\ UNCHANGED <<dims, treeVars, arg, gameVars, agentVars>>

\* The distance table of astar_shortest_path.
table_astar_shortest_path ==
  /\ pc = "search"
  /\ ret' \in astar_shortest_path(dims, unit_edges(dims, arg.can_move), arg.from, arg.to, 1)
  /\ pc' = "read_path"
  /\ UNCHANGED <<dims, treeVars, arg, gameVars, agentVars>>

\* path = read_path(ret, from, to). The loop pushes at most one coordinate per
\* coordinate of the grid and the one that is not visited.
call_read_path ==
  /\ pc = "read_path"
  /\ path' = read_path(ret, arg.from, arg.to, Size(dims) + 2)
  /\ pc' = "read"
  /\ UNCHANGED <<dims, tree, queue, callVars, gameVars, agentVars>>

NextReadPath ==
  table_generic_shortest_path \/ table_astar_shortest_path \/ call_read_path

SpecReadPath == InitReadPath /\ [][NextReadPath]_vars

\* C12: read_path returns the empty list when the table holds dist INT_MAX
\* for the target; for a target that was reached and is not the source it
\* returns a list that starts with the target, ends with a 4-neighbour of
\* the source and does not hold the source.
C12_ReadPathEmptyWhenUnreachable ==
  pc = "read" =>
    IF ret[arg.to].dist = INT_MAX THEN path = <<>>
    ELSE arg.to # arg.from =>
           /\ path # <<>>
           /\ path[1] = arg.to
           /\ is_neighbor(back(path), arg.from)
           /\ \A i \in 1 .. Len(path) : path[i] # arg.from

\* C12, as the code behaves: for a target with dist INT_MAX read_path returns
\* the target followed by the coordinate <<-1, -1>> that stands for no
\* predecessor; for a target that was reached it returns the steps from the
\* target back to the first step, each a coordinate of the grid next to the
\* one that follows, the last next to the source.
C12_ReadPathEndsInNotVisited ==
  pc = "read" =>
    IF arg.to = arg.from THEN path = <<>>
    ELSE IF ret[arg.to].dist = INT_MAX THEN path = <<arg.to, NOT_VISITED>>
    ELSE /\ path # <<>>
         /\ path[1] = arg.to
         /\ Len(path) = ret[arg.to].dist
         /\ \A i \in 1 .. Len(path) : Valid(dims, path[i]) /\ path[i] # arg.from
         /\ \A i \in 1 .. Len(path) - 1 : is_neighbor(path[i], path[i + 1])
         /\ is_neighbor(back(path), arg.from)

\* A target no step leads to, read from a table in which other coordinates
\* were reached.
C12_Witness ==
  /\ pc = "read"
  /\ arg.to # arg.from
  /\ ret[arg.to].dist = INT_MAX
  /\ back(path) = NOT_VISITED
  /\ \E c \in Coords(dims) : c # arg.from /\ ret[c].dist # INT_MAX

\* -------------------------------------- cell_tree_agent.hpp: unreachables

\* The coordinates in the order CoordRange iterates over them: row after row.
row_major(d) == [i \in 1 .. Size(d) |-> <<(i - 1) % d[1], (i - 1) \div d[1]>>]

\* The test of the scan with <= for <: among equals the last one wins.
nearer_or_equal(dist, dist_to_nearest) == dist <= dist_to_nearest

\* dists[a].dist < out.dist_to_nearest
nearer(dist, dist_to_nearest) == dist < dist_to_nearest

\* The for loop of unreachables over game.grid.coords(), from the coordinate
\* number i on. out is complete before the next round starts: it is drawn from
\* the set of the one value the round leaves.
RECURSIVE unreachables_for(_, _, _, _, _, _)
unreachables_for(d, game, reachable, dists, i, out) ==
  IF i > Size(d) THEN out
  ELSE
    LET a == row_major(d)[i]
    IN  CHOOSE r \in
          { unreachables_for(d, game, reachable, dists, i + 1, out1) :
              out1 \in { IF ~game.grid[a] /\ ~reachable[a]
                         THEN IF nearer(dists[a].dist, out.dist_to_nearest)
                              THEN [any |-> TRUE, nearest |-> a,
                                    dist_to_nearest |-> dists[a].dist]
                              ELSE [out EXCEPT !.any = TRUE]
                         ELSE out } } : TRUE

\* Find unreachable parts of the grid
unreachables(d, can_move, game, dists) ==
  CHOOSE r \in
    { unreachables_for(d, game, reachable, dists, 1,
        [any |-> FALSE, nearest |-> <<-1, -1>>, dist_to_nearest |-> INT_MAX]) :
        reachable \in { flood_fill(d, can_move, snake_pos(game)).marks } } : TRUE

\* The lambda can_move without its test of game.grid: steps into the snake
\* are permitted.
cell_tree_can_move_through_snake(d, game, cell_parents) ==
  {e \in Edges(d) :
     can_move_in_cell_tree(cell_parents, e[1], CoordPlus(e[1], e[2]), e[2])}

\* The lambda can_move of cell_tree_unreachables and of the edge function of
\* the agent, as the set of the steps it permits.
cell_tree_can_move(d, game, cell_parents) ==
  {e \in Edges(d) :
     /\ can_move_in_cell_tree(cell_parents, e[1], CoordPlus(e[1], e[2]), e[2])
     /\ ~game.grid[CoordPlus(e[1], e[2])]}

cell_tree_unreachables(d, game, dists) ==
  unreachables(d, cell_tree_can_move(d, game, cell_tree_parents(d, game.snake)),
               game, dists)

\* ---------------------------------------- shortest_path.hpp: first_step

\* A first_step that answers with the coordinate it was asked to reach.
first_step_is_target(d, paths, from, to, n) == to

\* first_step(path, from, to): the coordinate the loop ends on, or "outside"
\* when the loop reads path[to] for a to that is no coordinate of the grid.
\* n counts the rounds left.
RECURSIVE first_step(_, _, _, _, _)
first_step(d, paths, from, to, n) ==
  IF to = ROOT \/ n = 0 THEN to
  ELSE IF ~Valid(d, to) THEN "outside"
  ELSE IF paths[to].from = from THEN to
  ELSE first_step(d, paths, from, paths[to].from, n - 1)

\* ------------------------------------- cell_tree_agent.hpp: CellTreeAgent

\* The lambda edge of CellTreeAgent::operator() with the three penalties at
\* their default 0.
cell_tree_edge(d, game, cell_parents) ==
  LET can_move == cell_tree_can_move(d, game, cell_parents)
  IN  [e \in Edges(d) |-> IF e \in can_move THEN 1000 + 0 ELSE INT_MAX] @@ <<>>

\* What one call of the agent can end in. A stop is a failed assertion, an
\* exception or an access outside a container; why names it.
AgentStopped(a, why) ==
  [stopped |-> TRUE, pos |-> a, step |-> INVALID, plan |-> why, dir |-> "none",
   cached_path |-> <<>>]

\* return pos2 - pos; operator - throws when the two are not neighbours.
AgentReturned(a, b, how, cached) ==
  IF b \in (Int \X Int) /\ is_neighbor(b, a)
  THEN [stopped |-> FALSE, pos |-> a, step |-> b, plan |-> how,
        dir |-> CoordMinus(b, a), cached_path |-> cached]
  ELSE AgentStopped(a, "Not a dir")

\* std::vector::pop_back
pop_back(v) == SubSeq(v, 1, Len(v) - 1)

\* CellTreeAgent::operator() in the default configuration, after the search,
\* for one grid dists the search returned: recalculate_path is true, so the
\* first branch is never taken; lookahead is many_move_tail and detour is
\* nearest_unreachable.
cell_tree_agent_step(d, cached, game, dists) ==
  LET pos == snake_pos(game)
      p == read_path(dists, pos, game.apple_pos, Size(d) + 2)
  IN  IF p = <<>> THEN AgentStopped(pos, "back of an empty path")
      ELSE IF ~after_moves_assert(game, p) THEN AgentStopped(pos, "assert")
      ELSE
        LET pos2 == back(p)
            after == after_moves(game, p, "many_move_tail")
            unreachable == cell_tree_unreachables(d, after, dists)
        IN  IF unreachable.any /\ unreachable.dist_to_nearest < INT_MAX
            THEN LET s == first_step(d, dists, pos, unreachable.nearest, Size(d) + 2)
                 IN  IF s = "outside" THEN AgentStopped(pos, "outside the grid")
                     ELSE AgentReturned(pos, s, "detour", <<>>)
            ELSE IF unreachable.any /\ cached # <<>>
            THEN AgentReturned(pos, back(cached), "cached", pop_back(cached))
            ELSE AgentReturned(pos, pos2, "path", pop_back(p))

\* CellTreeAgent::operator(): every outcome it can have.
cell_tree_agent(d, cached, game) ==
  LET pos == snake_pos(game)
      cell_parents == cell_tree_parents(d, game.snake)
      edge == cell_tree_edge(d, game, cell_parents)
  IN  {cell_tree_agent_step(d, cached, game, dists) :
         dists \in astar_shortest_path(d, edge, pos, game.apple_pos, 1000)}

\* The even grids of at most MaxEpisodeCells cells, MaxEpisodeSide a side.
EpisodeDims ==
  {<<2 * cw, 2 * ch>> : <<cw, ch>> \in
     {p \in (1 .. MaxEpisodeSide) \X (1 .. MaxEpisodeSide) : p[1] * p[2] <= MaxEpisodeCells}}

\* Game::Game puts the snake of length 1 at the given start; the episode of
\* the scenario starts in the corner (0,0) with the apple in the opposite
\* corner.
InitCellTreeEpisode ==
  /\ dims \in EpisodeDims
  /\ snake = << <<0, 0>> >>
  /\ grid = [NewGrid(dims, FALSE) EXCEPT ![<<0, 0>>] = TRUE]
  /\ apple_pos = <<dims[1] - 1, dims[2] - 1>>
  /\ turn = 0
  /\ state = "playing"
  /\ cycle = <<>>
  /\ cached_path = <<>>
  /\ last = NoTick
  /\ pc = "play"
  /\ TreeIdle
  /\ CallIdle

\* One round of the play loop: game.move(agent(game)).
play_cell_tree ==
  /\ pc = "play"
  /\ state = "playing"
  /\ \E r \in cell_tree_agent(dims, cached_path, GameBase(grid, snake, apple_pos)) :
       IF r.stopped
       THEN /\ pc' = "stopped"
            /\ last' = [pos |-> r.pos, step |-> r.step, plan |-> r.plan,
                        dir |-> r.dir, event |-> "none"]
            /\ UNCHANGED <<dims, treeVars, callVars, gameVars, cycle, cached_path>>
       ELSE /\ cached_path' = r.cached_path
            /\ last' = [pos |-> r.pos, step |-> r.step, plan |-> r.plan,
                        dir |-> r.dir, event |-> move_event(r.dir)]
            /\ move(r.dir)
            /\ UNCHANGED <<pc, dims, treeVars, callVars, cycle>>

\* The episode is played to its end, whatever apples random_free_coord gives.
NextCellTreeEpisode == play_cell_tree

SpecCellTreeEpisode == InitCellTreeEpisode /\ [][NextCellTreeEpisode]_vars

\* C15: in the episode that starts with a snake of length 1 at (0,0) and the
\* first apple in the opposite corner, for every later apple, the agent
\* returns at every tick a direction to a coordinate inside the grid that the
\* snake does not occupy, Game::move never reports a loss, and the first move
\* is right or down.
C15_CellTreeAgentNeverCollides ==
  [][LET next == CoordPlus(snake[1], last'.dir)
     IN  /\ pc' = "play"
         /\ last'.dir \in Dir
         /\ Valid(dims, next)
         /\ ~grid[next]
         /\ last'.event # "lose"
         /\ state' # "loss"
         /\ turn = 0 => last'.dir \in {"right", "down"}]_vars

\* The episode on the 4 x 4 grid has been played to the win, the snake
\* filling the grid, in more turns than the grid has coordinates.
C15_Witness ==
  /\ state = "win"
  /\ dims = <<4, 4>>
  /\ Len(snake) = 16
  /\ turn > 16

\* ------------------------- episodes with the random numbers as the input

\* Game::random_free_coord for the number pos that rng.random(n) returned:
\* the loop over grid.coords() from the coordinate number i on. "throw" stands
\* for throw "no free coord".
RECURSIVE random_free_coord_for(_, _, _, _)
random_free_coord_for(d, g, pos, i) ==
  IF i > Size(d) THEN "throw"
  ELSE IF ~g[row_major(d)[i]] THEN
         IF pos = 0 THEN row_major(d)[i]
         ELSE random_free_coord_for(d, g, pos - 1, i + 1)
  ELSE random_free_coord_for(d, g, pos, i + 1)

\* Sequences of numbers the calls rng.random(range) of one episode return: two
\* for the start (dims.random), then one for every apple.
RandomRuns ==
  { [dims |-> <<4, 8>>, random |-> <<3, 3, 4, 6, 17, 25, 16, 5, 1, 1, 13, 3, 13>>],
    [dims |-> <<4, 8>>, random |-> <<3, 2, 6, 13, 10, 22, 6, 13, 10, 20, 11, 18>>],
    [dims |-> <<4, 8>>, random |-> <<0, 1, 13, 19, 16, 5, 22, 21, 8, 10, 13, 0, 13>>],
    [dims |-> <<6, 6>>, random |-> <<0, 1, 12, 13, 3, 30, 30, 11, 4, 16, 17, 14, 5>> ] }

\* Game::Game(dims, rng) for the runs of RandomRuns; arg holds the numbers and
\* how many of them are used up.
InitCellTreeRun ==
  /\ \E run \in RandomRuns :
       LET start == <<run.random[1], run.random[2]>>
       IN  /\ dims = run.dims
           /\ snake = <<start>>
           /\ grid = [NewGrid(dims, FALSE) EXCEPT ![start] = TRUE]
           /\ apple_pos = random_free_coord_for(dims, grid, run.random[3], 1)
           /\ arg = [random |-> run.random, used |-> 3]
  /\ ret = <<>>
  /\ turn = 0
  /\ state = "playing"
  /\ cycle = <<>>
  /\ cached_path = <<>>
  /\ last = NoTick
  /\ pc = "play"
  /\ TreeIdle

\* One round of the play loop, game.move(agent(game)), the apple placed by
\* the next number of the run. The run ends where its numbers end.
play_cell_tree_run ==
  /\ pc = "play"
  /\ state = "playing"
  /\ \E r \in cell_tree_agent(dims, cached_path, GameBase(grid, snake, apple_pos)) :
       IF r.stopped
       THEN /\ pc' = "stopped"
            /\ last' = [pos |-> r.pos, step |-> r.step, plan |-> r.plan,
                        dir |-> r.dir, event |-> "none"]
            /\ UNCHANGED <<dims, treeVars, callVars, gameVars, cycle, cached_path>>
       ELSE LET placing == move_event(r.dir) = "eat" /\ Len(snake) + 1 # Size(dims)
            IN  /\ placing => arg.used < Len(arg.random)
                /\ cached_path' = r.cached_path
                /\ last' = [pos |-> r.pos, step |-> r.step, plan |-> r.plan,
                            dir |-> r.dir, event |-> move_event(r.dir)]
                /\ move(r.dir)
                /\ placing =>
                     apple_pos' = random_free_coord_for(dims, grid',
                                                        arg.random[arg.used + 1], 1)
                /\ arg' = IF placing THEN [arg EXCEPT !.used = @ + 1] ELSE arg
                /\ UNCHANGED <<pc, dims, treeVars, ret, cycle>>

NextCellTreeRun == play_cell_tree_run

SpecCellTreeRun == InitCellTreeRun /\ [][NextCellTreeRun]_vars

\* The goal can be reached from the head by steps the cell tree and the
\* occupancy permit.
GoalInReach ==
  apple_pos \in Reachable(
    cell_tree_can_move(dims, GameBase(grid, snake, apple_pos),
                       cell_tree_parents(dims, snake)),
    {snake[1]})

\* C14: at a tick at which the goal cannot be reached from the head under the
\* cell tree and occupancy predicate the agent still returns a direction: it
\* has not stopped in a failed assertion, an exception or an access outside
\* the grid.
C14_UnreachableGoalStillAnswered ==
  ~GoalInReach => pc # "stopped"

\* C14, as the code behaves: the agent stops only at a tick at which the goal
\* cannot be reached, and then in the assertion of after_moves, before it
\* looks at the cached path; at every other tick it returns a direction.
C14_StopsInAssertOfAfterMoves ==
  /\ pc = "stopped" => ~GoalInReach /\ last.plan = "assert" /\ last.dir = "none"
  /\ pc # "stopped" /\ turn > 0 => last.dir \in Dir

\* The agent was called with the goal out of reach of a snake of several
\* segments, after it had eaten, and stopped in the assertion.
C14_Witness ==
  /\ pc = "stopped"
  /\ ~GoalInReach
  /\ last.plan = "assert"
  /\ Len(snake) >= 2
  /\ turn > 0

\* ------------------------------------- builders on grids with an odd side

\* The elements of a Grid lie row after row in one array: data[a.x + w*a.y].
grid_index(cd, a) == a[1] + cd[1] * a[2]

\* The coordinate whose element lies at index k of the array.
grid_coord(cd, k) == <<k % cd[1], k \div cd[1]>>

\* cell_tree_parents on its array, nothing checked. A cell outside the cell
\* grid whose index is inside the array reads and writes the element of
\* another cell; with an index past the array the behaviour is undefined: the
\* call stops there, or goes on with the grid as it was.
RECURSIVE cell_tree_parents_data(_, _, _, _, _)
cell_tree_parents_data(cd, s, i, parent, parents) ==
  IF i = 0 THEN {[outside |-> FALSE, parents |-> parents]}
  ELSE
    LET cell_coord == cell(s[i])
        k == grid_index(cd, cell_coord)
        e == grid_coord(cd, k)
    IN  IF k < Size(cd)
        THEN cell_tree_parents_data(cd, s, i - 1, cell_coord,
               IF parents[e] = NOT_VISITED
               THEN [parents EXCEPT ![e] = parent]
               ELSE parents)
        ELSE {[outside |-> TRUE, parents |-> parents]}
               \cup cell_tree_parents_data(cd, s, i - 1, cell_coord, parents)

\* The grids of 2 to MaxOddSide a side with an odd width or an odd height.
OddDims ==
  {d \in (2 .. MaxOddSide) \X (2 .. MaxOddSide) : d[1] % 2 = 1 \/ d[2] % 2 = 1}

\* Either random_hamiltonian_cycle(dims, rng) up to the loop of
\* random_spanning_tree, or a snake of one coordinate cell_tree_parents is
\* going to be called with.
InitOddDims ==
  /\ dims \in OddDims
  /\ \/ /\ \E node \in Coords(CellDims(dims)) :
             /\ tree = [NewGrid(CellDims(dims), INVALID) EXCEPT ![node] = ROOT]
             /\ queue = PushEdges(CellDims(dims), <<>>, node, 1)
        /\ snake = <<>>
        /\ pc = "random_spanning_tree"
     \/ /\ \E c \in Coords(dims) : snake = <<c>>
        /\ tree = <<>> /\ queue = <<>>
        /\ pc = "snake"
  /\ path = <<>>
  /\ CallIdle
  /\ grid = <<>> /\ apple_pos = <<>> /\ turn = 0 /\ state = "none"
  /\ cycle = <<>> /\ cached_path = <<>> /\ last = <<>>

\* snake.push_front(next), up to MaxOddSnake coordinates.
extend_snake_odd == Len(snake) < MaxOddSnake /\ extend_snake

\* cell_tree_parents(dims, snake) with the array it allocates: w/2 * h/2.
call_cell_tree_parents_data ==
  /\ pc = "snake"
  /\ \E r \in cell_tree_parents_data(CellDims(dims), snake, Len(snake), ROOT,
                                      NewGrid(CellDims(dims), NOT_VISITED)) :
       /\ tree' = r.parents
       /\ pc' = IF r.outside THEN "outside the array" ELSE "cell_tree_parents"
  /\ UNCHANGED <<dims, queue, path, callVars, gameVars, agentVars>>

NextOddDims == rst_step \/ rst_return \/ extend_snake_odd \/ call_cell_tree_parents_data

SpecOddDims == InitOddDims /\ [][NextOddDims]_vars

\* The grid with the odd sides cut by one.
Truncated(d) == <<2 * CDiv2(d[1]), 2 * CDiv2(d[2])>>

\* C16: on a grid with an odd width or height random_hamiltonian_cycle and
\* cell_tree_parents return no structure and index no cell outside the cell
\* grid: the call is rejected with an error.
C16_OddDimsAreRejected ==
  /\ pc # "done"
  /\ pc # "cell_tree_parents"
  /\ pc # "outside the array"

\* C16, as the code behaves: random_hamiltonian_cycle returns a Hamiltonian
\* cycle of the grid with the odd sides cut by one, and cell_tree_parents
\* returns a grid of w/2 * h/2 cells, or reaches past its array, which it does
\* only with a snake that has a coordinate in the last column or row.
C16_OddDimsAreTruncated ==
  /\ pc = "done" => SingleCycle(Truncated(dims), path) /\ Truncated(dims) # dims
  /\ pc = "cell_tree_parents" => DOMAIN tree = Coords(CellDims(dims))
  /\ pc = "outside the array" =>
       \E i \in 1 .. Len(snake) : ~Valid(Truncated(dims), snake[i])

\* random_hamiltonian_cycle has returned for a grid with an odd side, and the
\* cycle it returned leaves a coordinate of the grid out.
C16_Witness ==
  /\ pc = "done"
  /\ dims[1] % 2 = 1
  /\ DOMAIN path # Coords(dims)
  /\ \E c \in Coords(dims) : c \notin DOMAIN path

\* ------------------- hamiltonian_cycle.hpp: PerturbedHamiltonianCycle

\* The constructor's loop: cycle_order[c] = i along the cycle from (0,0).
RECURSIVE cycle_order_go(_, _, _, _, _)
cycle_order_go(cyc, c, i, n, order) ==
  IF i >= n THEN order
  ELSE cycle_order_go(cyc, cyc[c], i + 1, n, [order EXCEPT ![c] = i])

cycle_order(d, cyc) == cycle_order_go(cyc, <<0, 0>>, 0, Size(d), NewGrid(d, -1))

\* PerturbedHamiltonianCycle::cycle_distance
cycle_distance(d, order, a, b) ==
  IF order[a] < order[b] THEN order[b] - order[a]
  ELSE order[b] - order[a] + Size(d)

\* The whole grid in place of half of it: the test of the length never holds.
grid_size_whole(size) == size

\* game.grid.size()*50/100
grid_size_half(size) == (size * 50) \div 100

\* max_shortcut as operator() has it when it comes to the test max_shortcut > 0
max_shortcut(d, order, game) ==
  LET pos == snake_pos(game)
      dist_goal == cycle_distance(d, order, pos, game.apple_pos)
      dist_tail == cycle_distance(d, order, pos, back(game.snake))
      m0 == IF dist_goal <= dist_tail - 3 THEN dist_goal ELSE dist_tail - 3
      m1 == IF Len(game.snake) > grid_size_half(Size(d)) THEN 0 ELSE m0
      m2 == IF dist_goal < dist_tail THEN m1 - 1 ELSE m1
  IN  IF dist_goal < dist_tail /\ (dist_tail - dist_goal) * 4 > Size(d) - Len(game.snake)
      THEN m2 - 10
      ELSE m2

\* A loop that keeps the last neighbour within the bound instead of the one
\* furthest along the cycle.
RECURSIVE best_shortcut_last(_, _, _, _, _, _)
best_shortcut_last(d, order, game, m, i, st) ==
  IF i > Len(dirs) THEN st
  ELSE
    LET pos == snake_pos(game)
        b == CoordPlus(pos, dirs[i])
    IN  best_shortcut_last(d, order, game, m, i + 1,
          IF /\ Valid(d, b)
             /\ ~game.grid[b]
             /\ cycle_distance(d, order, pos, b) <= m
             /\ cycle_distance(d, order, pos, b) > 1
          THEN <<b, cycle_distance(d, order, pos, b)>>
          ELSE st)

\* best shortcut direction: the for loop over dirs, from the direction number
\* i on; st is <<next, dist_next>>.
RECURSIVE best_shortcut(_, _, _, _, _, _)
best_shortcut(d, order, game, m, i, st) ==
  IF i > Len(dirs) THEN st
  ELSE
    LET pos == snake_pos(game)
        b == CoordPlus(pos, dirs[i])
    IN  best_shortcut(d, order, game, m, i + 1,
          IF /\ Valid(d, b)
             /\ ~game.grid[b]
             /\ cycle_distance(d, order, pos, b) <= m
             /\ cycle_distance(d, order, pos, b) > st[2]
          THEN <<b, cycle_distance(d, order, pos, b)>>
          ELSE st)

\* PerturbedHamiltonianCycle::operator(): use_shortest_path is the constant
\* false, so the branch with astar_shortest_path is never taken. The result is
\* next; the direction returned is next - pos.
perturbed_hamiltonian_cycle(d, cyc, game) ==
  LET pos == snake_pos(game)
      order == cycle_order(d, cyc)
      m == max_shortcut(d, order, game)
  IN  IF m > 0
      THEN best_shortcut(d, order, game, m, 1, <<cyc[pos], 1>>)[1]
      ELSE cyc[pos]

\* The even grids of at most MaxShortcutCells cells of 2 x 2, at most
\* MaxShortcutSide a side.
ShortcutDims ==
  {<<2 * cw, 2 * ch>> : <<cw, ch>> \in
     {p \in (1 .. MaxShortcutSide) \X (1 .. MaxShortcutSide) :
        p[1] * p[2] <= MaxShortcutCells}}

\* Game::Game with the start in a corner and any apple, and an agent
\* constructed with the Hamiltonian cycle of the comb tree.
InitShortcut ==
  /\ dims \in ShortcutDims
  /\ cycle = tree_to_hamiltonian_cycle(CellDims(dims), comb_tree(CellDims(dims))) @@ <<>>
  /\ \E start \in {<<0, 0>>, <<dims[1] - 1, dims[2] - 1>>} :
       /\ snake = <<start>>
       /\ grid = [NewGrid(dims, FALSE) EXCEPT ![start] = TRUE]
  /\ apple_pos \in random_free_coord(dims, grid)
  /\ turn = 0
  /\ state = "playing"
  /\ cached_path = <<>>
  /\ last = NoTick
  /\ pc = "play"
  /\ TreeIdle
  /\ CallIdle

\* One round of the play loop: game.move(agent(game)).
play_shortcut ==
  /\ pc = "play"
  /\ state = "playing"
  /\ \E pos \in {snake[1]},
        next \in {perturbed_hamiltonian_cycle(dims, cycle, GameBase(grid, snake, apple_pos))} :
         IF is_neighbor(next, pos)
         THEN /\ last' = [pos |-> pos, step |-> next, repair |-> "none",
                          dir |-> CoordMinus(next, pos),
                          event |-> move_event(CoordMinus(next, pos))]
              /\ move(CoordMinus(next, pos))
              /\ UNCHANGED <<pc, dims, treeVars, callVars, cycle, cached_path>>
         ELSE /\ pc' = "stopped"
              /\ UNCHANGED <<dims, treeVars, callVars, gameVars, agentVars>>

NextShortcut == play_shortcut

SpecShortcut == InitShortcut /\ [][NextShortcut]_vars

\* The number of steps along the cycle from a to b, at least one.
CycleSteps(d, cyc, a, b) ==
  CHOOSE k \in 1 .. Size(d) :
    /\ Follow(cyc, a, k) = b
    /\ \A j \in 1 .. (k - 1) : Follow(cyc, a, j) # b

\* min(dist_goal, dist_tail - 3) with its reductions when the goal is nearer
\* than the tail.
ShortcutBound ==
  LET dist_goal == CycleSteps(dims, cycle, snake[1], apple_pos)
      dist_tail == CycleSteps(dims, cycle, snake[1], back(snake))
      least == IF dist_goal < dist_tail - 3 THEN dist_goal ELSE dist_tail - 3
  IN  IF dist_goal < dist_tail
      THEN least - 1
             - (IF (dist_tail - dist_goal) * 4 > Size(dims) - Len(snake) THEN 10 ELSE 0)
      ELSE least

\* C17: at a tick at which the snake is longer than half the grid
\* (snake.size() > W*H*50/100), or the shortcut bound is not positive, the move
\* the agent returns is the one along the cycle, cycle[pos] - pos.
C17_NoShortcutWhenLongOrBoundNotPositive ==
  [][ (/\ pc = "play"
       /\ state = "playing"
       /\ \/ Len(snake) > (dims[1] * dims[2] * 50) \div 100
          \/ ShortcutBound <= 0)
      => /\ pc' = "play"
         /\ last'.pos = snake[1]
         /\ last'.dir = CoordMinus(cycle[snake[1]], snake[1]) ]_vars

\* The snake is longer than half the grid and did not grow at the last tick,
\* so that tick was one of a long snake; and at an earlier tick a shortcut was
\* taken, since the snake does not lie along the cycle.
C17_Witness ==
  /\ Len(snake) > (dims[1] * dims[2] * 50) \div 100
  /\ last.event = "move"
  /\ last.step = cycle[last.pos]
  /\ \E i \in 2 .. Len(snake) : cycle[snake[i]] # snake[i - 1]

\* ------------------------------ util.hpp: RingBuffer, and Game::move on it

\* GameBase::GameBase: snake(range.size() + 1)
ring_capacity(d) == Size(d) + 1

\* RingBuffer(capacity_): data holds capacity_ elements, none written yet
\* (INVALID stands for an element that was never written).
RingBuffer(capacity) ==
  [data |-> [i \in 0 .. capacity - 1 |-> INVALID] @@ <<>>,
   capacity_ |-> capacity, begin_ |-> 0, end_ |-> 0]

\* size(): end_ - begin_ + (end_ < begin_) * capacity()
ring_size(rb) ==
  rb.end_ - rb.begin_ + (IF rb.end_ < rb.begin_ THEN rb.capacity_ ELSE 0)

ring_front(rb) == rb.data[rb.begin_]

ring_push_front(rb, x) ==
  LET b == IF rb.begin_ - 1 < 0 THEN rb.capacity_ - 1 ELSE rb.begin_ - 1
  IN  [rb EXCEPT !.begin_ = b, !.data[b] = x]

ring_back(rb) ==
  IF rb.end_ = 0 THEN rb.data[rb.capacity_ - 1] ELSE rb.data[rb.end_ - 1]

ring_pop_back(rb) ==
  [rb EXCEPT !.end_ = IF rb.end_ - 1 < 0 THEN rb.capacity_ - 1 ELSE rb.end_ - 1]

\* operator[] (int i): data[(begin_+i) % capacity_]
ring_at(rb, i) == rb.data[(rb.begin_ + i) % rb.capacity_]

\* The first test of Game::move without grid[next]: only the border stops the
\* snake.
move_blocked_by_border(d, g, next) == ~Valid(d, next)

\* if (!grid.valid(next) || grid[next])
move_blocked(d, g, next) == ~Valid(d, next) \/ g[next]

\* The grids of 2 to MaxMoveCells coordinates, of any width and height.
MoveDims ==
  {p \in (1 .. MaxMoveCells) \X (1 .. MaxMoveCells) :
     p[1] * p[2] >= 2 /\ p[1] * p[2] <= MaxMoveCells}

\* Game::Game: the snake, kept in arg, is a buffer with the start pushed to its
\* front; the apple is any free coordinate.
InitMove ==
  /\ dims \in MoveDims
  /\ \E start \in Coords(dims) :
       /\ arg = ring_push_front(RingBuffer(ring_capacity(dims)), start)
       /\ grid = [NewGrid(dims, FALSE) EXCEPT ![start] = TRUE]
  /\ apple_pos \in random_free_coord(dims, grid)
  /\ turn = 0
  /\ state = "playing"
  /\ snake = <<>>
  /\ ret = <<>>
  /\ cycle = <<>> /\ cached_path = <<>> /\ last = <<>>
  /\ pc = "move"
  /\ TreeIdle

\* Game::move(dir) for any direction; ret is the Event returned. A call in a
\* state other than playing returns none and changes nothing.
game_move ==
  /\ pc = "move"
  /\ state = "playing"
  /\ \E dir \in Dir :
       LET next == CoordPlus(ring_front(arg), dir)
           pushed == ring_push_front(arg, next)
           grid1 == [grid EXCEPT ![next] = TRUE]
       IN  /\ turn' = turn + 1
           /\ IF move_blocked(dims, grid, next)
              THEN /\ state' = "loss" /\ ret' = "lose"
                   /\ UNCHANGED <<arg, grid, apple_pos>>
              ELSE IF turn + 1 > Size(dims) * Size(dims)
              THEN /\ state' = "loss" /\ ret' = "lose"
                   /\ UNCHANGED <<arg, grid, apple_pos>>
              ELSE IF next = apple_pos
              THEN /\ arg' = pushed
                   /\ grid' = grid1
                   /\ ret' = "eat"
                   /\ IF ring_size(pushed) = Size(dims)
                      THEN state' = "win" /\ apple_pos' = apple_pos
                      ELSE state' = state /\ apple_pos' \in random_free_coord(dims, grid1)
              ELSE /\ grid' = [grid1 EXCEPT ![ring_back(pushed)] = FALSE]
                   /\ arg' = ring_pop_back(pushed)
                   /\ ret' = "move"
                   /\ UNCHANGED <<state, apple_pos>>
  /\ UNCHANGED <<pc, dims, treeVars, snake, agentVars>>

NextMove == game_move

SpecMove == InitMove /\ [][NextMove]_vars

\* The snake as the program reads it: snake[0] .. snake[size() - 1].
SnakeOfRing == [i \in 1 .. ring_size(arg) |-> ring_at(arg, i - 1)]

\* C18: after construction and after every sequence of calls Game::move(dir)
\* the snake's entries are coordinates of the grid, pairwise distinct, every
\* two consecutive ones are 4-adjacent, and there are at least 1 and at most
\* W*H of them, one for every occupied coordinate: the buffer of W*H + 1
\* elements never wraps onto itself.
C18_SnakeDistinctAdjacentBounded ==
  LET s == SnakeOfRing
      n == ring_size(arg)
  IN  /\ n >= 1
      /\ n <= Size(dims)
      /\ n < arg.capacity_
      /\ \A i \in 1 .. n : Valid(dims, s[i]) /\ grid[s[i]]
      /\ \A i, j \in 1 .. n : i # j => s[i] # s[j]
      /\ \A i \in 1 .. (n - 1) : is_neighbor(s[i], s[i + 1])
      /\ Cardinality({c \in Coords(dims) : grid[c]}) = n

\* The snake fills a grid of at least four coordinates, and its elements wrap
\* around the end of the buffer.
C18_Witness ==
  /\ state = "win"
  /\ ring_size(arg) = Size(dims)
  /\ Size(dims) >= 4
  /\ arg.end_ < arg.begin_

\* ----------------------------------------------------- agent.hpp: AgentLog

\* The alternatives of LogEntry: the two markers, a path and a bitmap.
NoEntry == "NoEntry"

CopyEntry == "CopyEntry"

LogEntry == {NoEntry, CopyEntry, "std::vector<Coord>", "Grid<bool>"}

\* enum Key
Key == {"cycle", "plan", "unreachable"}

\* The test of the while loop of add with <= for <: one NoEntry too many.
add_while_to_turn(size, t) == size <= t

\* (int)logs[key].size() < turn
add_while(size, t) == size < t

\* The while loop of add: logs[key].emplace_back(NoEntry{})
RECURSIVE add_fill(_, _)
add_fill(log, t) ==
  IF add_while(Len(log), t) THEN add_fill(Append(log, NoEntry), t) ELSE log

\* AgentLog::add(turn, key, value)
AgentLog_add(logs, t, key, value) ==
  [logs EXCEPT ![key] = Append(add_fill(@, t), value)]

\* A new AgentLog: every channel is empty. arg keeps the calls made so far.
InitLog ==
  /\ ret = [key \in Key |-> <<>>]
  /\ arg = <<>>
  /\ pc = "log"
  /\ dims = <<>>
  /\ TreeIdle
  /\ GameIdle

\* One call add(turn, key, value), with any turn, key and value; a value is a
\* path, a bitmap or the marker CopyEntry.
call_add ==
  /\ pc = "log"
  /\ Len(arg) < MaxLogCalls
  /\ \E t \in 0 .. MaxLogTurn, key \in Key, value \in LogEntry \ {NoEntry} :
       /\ ret' = AgentLog_add(ret, t, key, value)
       /\ arg' = Append(arg, [turn |-> t, key |-> key, value |-> value])
  /\ UNCHANGED <<pc, dims, treeVars, gameVars, agentVars>>

NextLog == call_add

SpecLog == InitLog /\ [][NextLog]_vars

\* The numbers of the calls made so far for the channel key.
CallsFor(key) == {i \in 1 .. Len(arg) : arg[i].key = key}

\* Every channel holds one entry per turn: the entry of a turn that add was
\* called with is the value of that call, the entry of any other turn is
\* NoEntry, and the channel is no longer than the latest turn + 1.
OneEntryPerTurn ==
  \A key \in Key :
    LET calls == CallsFor(key)
        log == ret[key]
    IN  /\ \A i \in calls :
             /\ arg[i].turn + 1 <= Len(log)
             /\ log[arg[i].turn + 1] = arg[i].value
        /\ \A t \in 0 .. (Len(log) - 1) :
             (\A i \in calls : arg[i].turn # t) => log[t + 1] = NoEntry
        /\ \A i \in calls :
             (\A j \in calls : arg[j].turn <= arg[i].turn) => Len(log) <= arg[i].turn + 1
        /\ calls = {} => log = <<>>

\* The calls for every channel come with increasing turns.
TurnsIncrease ==
  \A i, j \in 1 .. Len(arg) :
    i < j /\ arg[i].key = arg[j].key => arg[i].turn < arg[j].turn

\* C19, as stated: after any sequence of calls of add every channel holds
\* one entry per turn, the value added for it or NoEntry, and is no longer
\* than the latest turn + 1.
C19_OneEntryPerTurnForAnyCalls == OneEntryPerTurn

\* C19, as the code behaves: after a sequence of calls of add in which the
\* turns of every channel increase from call to call, every channel holds one
\* entry per turn, the value added for it or NoEntry, and is no longer than the
\* latest turn + 1.
C19_OneEntryPerTurnForIncreasingTurns == TurnsIncrease => OneEntryPerTurn

\* A channel was added to twice, with a turn left out in between that holds
\* NoEntry, and one of the values is the marker CopyEntry.
C19_Witness ==
  /\ TurnsIncrease
  /\ \E key \in Key :
       /\ Cardinality(CallsFor(key)) >= 2
       /\ \E t \in 1 .. Len(ret[key]) : ret[key][t] = NoEntry
       /\ \E t \in 1 .. Len(ret[key]) : ret[key][t] = CopyEntry

\* ------------------------------------------- game_util.hpp: unreachables

\* The for loop of unreachables as game_util.hpp has it, from the coordinate
\* number i on: out carries the bitmap reachable, in which the coordinates of
\* the snake are marked as well.
RECURSIVE unreachables_marking_for(_, _, _, _, _)
unreachables_marking_for(d, game, dists, i, out) ==
  IF i > Size(d) THEN out
  ELSE
    LET a == row_major(d)[i]
    IN  CHOOSE r \in
          { unreachables_marking_for(d, game, dists, i + 1, out1) :
              out1 \in { IF game.grid[a]
                         THEN [out EXCEPT !.reachable[a] = TRUE]
                         ELSE IF ~out.reachable[a]
                         THEN IF nearer(dists[a].dist, out.dist_to_nearest)
                              THEN [out EXCEPT !.any = TRUE, !.nearest = a,
                                               !.dist_to_nearest = dists[a].dist]
                              ELSE [out EXCEPT !.any = TRUE]
                         ELSE out } } : TRUE

\* unreachables of game_util.hpp
unreachables_marking(d, can_move, game, dists) ==
  CHOOSE r \in
    { unreachables_marking_for(d, game, dists, 1,
        [any |-> FALSE, nearest |-> <<-1, -1>>, dist_to_nearest |-> INT_MAX,
         reachable |-> reachable]) :
        reachable \in { flood_fill(d, can_move, snake_pos(game)).marks } } : TRUE

\* The grids of at most MaxUnreachableCells coordinates.
UnreachableDims ==
  {p \in (1 .. MaxUnreachableCells) \X (1 .. MaxUnreachableCells) :
     p[1] * p[2] <= MaxUnreachableCells}

\* The snakes of n coordinates on the grid d, head first.
RECURSIVE SnakesOn(_, _)
SnakesOn(d, n) ==
  IF n = 1 THEN {<<c>> : c \in Coords(d)}
  ELSE UNION { { <<c>> \o s : c \in { e \in Coords(d) :
                                       /\ is_neighbor(s[1], e)
                                       /\ \A i \in 1 .. Len(s) : s[i] # e } }
               : s \in SnakesOn(d, n - 1) }

\* The steps between neighbours both ways, for the pairs of neighbours in open.
both_ways(d, open) == {e \in Edges(d) : {e[1], CoordPlus(e[1], e[2])} \in open}

\* The distances a search can have recorded.
Dists == {1, 2, INT_MAX}

\* A call unreachables(can_move, game, dists): a snake on the grid, a
\* predicate that permits the steps into free coordinates across some of the
\* borders between neighbours, and any recorded distances.
InitUnreachables ==
  /\ dims \in UnreachableDims
  /\ \E n \in 1 .. MaxUnreachableSnake : snake \in SnakesOn(dims, n)
  /\ grid = [c \in Coords(dims) |-> \E i \in 1 .. Len(snake) : snake[i] = c] @@ <<>>
  /\ apple_pos = INVALID
  /\ \E open \in SUBSET {{e[1], CoordPlus(e[1], e[2])} : e \in Edges(dims)},
        dist \in [Coords(dims) -> Dists] :
       arg = [can_move |-> {e \in both_ways(dims, open) : ~grid[CoordPlus(e[1], e[2])]},
              dists |-> [c \in Coords(dims) |-> Step(dist[c], INVALID)] @@ <<>>]
  /\ ret = <<>>
  /\ turn = 0
  /\ state = "none"
  /\ cycle = <<>> /\ cached_path = <<>> /\ last = <<>>
  /\ pc = "unreachables"
  /\ TreeIdle

\* unreachables of cell_tree_agent.hpp
call_unreachables ==
  /\ pc = "unreachables"
  /\ ret' = unreachables(dims, arg.can_move, GameBase(grid, snake, apple_pos), arg.dists)
  /\ pc' = "cell_tree_agent.hpp"
  /\ UNCHANGED <<dims, treeVars, arg, gameVars, agentVars>>

\* unreachables of game_util.hpp
call_unreachables_marking ==
  /\ pc = "unreachables"
  /\ ret' = unreachables_marking(dims, arg.can_move, GameBase(grid, snake, apple_pos),
                                 arg.dists)
  /\ pc' = "game_util.hpp"
  /\ UNCHANGED <<dims, treeVars, arg, gameVars, agentVars>>

NextUnreachables == call_unreachables \/ call_unreachables_marking

SpecUnreachables == InitUnreachables /\ [][NextUnreachables]_vars

\* The free coordinates no chain of permitted steps from the head leads to.
Unreached ==
  {c \in Coords(dims) : ~grid[c] /\ c \notin Reachable(arg.can_move, {snake[1]})}

\* a comes before b in the order of the scan: row after row.
ScannedBefore(a, b) == a[2] < b[2] \/ (a[2] = b[2] /\ a[1] < b[1])

\* C20: unreachables sets any exactly when some free coordinate is not reached
\* by the flood fill from the head. When some such coordinate has a recorded
\* distance below INT_MAX, dist_to_nearest is the least recorded distance among
\* them and nearest is the first of those at that distance in the order of the
\* scan, row after row; when none has, nearest stays (-1,-1) and
\* dist_to_nearest stays INT_MAX.
C20_UnreachablesNearestIsFirstMinimum ==
  pc \in {"cell_tree_agent.hpp", "game_util.hpp"} =>
    LET finite == {c \in Unreached : arg.dists[c].dist < INT_MAX}
    IN  /\ ret.any <=> Unreached # {}
        /\ IF finite # {}
           THEN /\ ret.nearest \in finite
                /\ ret.dist_to_nearest = arg.dists[ret.nearest].dist
                /\ \A c \in finite :
                     \/ arg.dists[c].dist > ret.dist_to_nearest
                     \/ c = ret.nearest
                     \/ /\ arg.dists[c].dist = ret.dist_to_nearest
                        /\ ScannedBefore(ret.nearest, c)
           ELSE ret.nearest = <<-1, -1>> /\ ret.dist_to_nearest = INT_MAX

\* Two unreached free coordinates have the least recorded distance, a third
\* one has none, and the scan has kept the first.
C20_Witness ==
  /\ pc = "game_util.hpp"
  /\ ret.any
  /\ \E c \in Unreached :
       /\ c # ret.nearest
       /\ arg.dists[c].dist = ret.dist_to_nearest
  /\ \E c \in Unreached : arg.dists[c].dist = INT_MAX

\* --------------------------- CellTreeAgent with DetourStrategy::any

\* The value Grid::operator[] gives for the coordinate a of a grid g over d,
\* nothing checked: the element of a inside the grid; for a outside the grid
\* the element that lies at data[a.x + w*a.y], and when that is no element of
\* the array the behaviour is undefined: any value of vals, or a stop.
unchecked_at(d, g, a, vals) ==
  IF Valid(d, a) THEN {[stop |-> FALSE, val |-> g[a]]}
  ELSE IF grid_index(d, a) >= 0 /\ grid_index(d, a) < Size(d)
  THEN {[stop |-> FALSE, val |-> g[grid_coord(d, grid_index(d, a))]]}
  ELSE {[stop |-> FALSE, val |-> v] : v \in vals} \cup {[stop |-> TRUE]}

\* The lambda edge of CellTreeAgent::operator() asked about a and a + dir,
\* whether a + dir is inside the grid or not, the penalties at their default 0:
\* every outcome, with outside telling whether a grid was indexed with a
\* coordinate outside it.
cell_tree_edge_at(d, game, cell_parents, a, dir) ==
  LET b == CoordPlus(a, dir)
      cell_a == cell(a)
      cell_b == cell(b)
      cd == CellDims(d)
      free == { [stopped |-> v.stop, outside |-> ~Valid(d, b),
                 cost |-> IF ~v.stop /\ ~v.val THEN 1000 + 0 ELSE INT_MAX] :
                v \in unchecked_at(d, game.grid, b, BOOLEAN) }
  IN  IF ~can_move_in_tree_cell(CMod2(a[1]), CMod2(a[2]), dir)
      THEN {[stopped |-> FALSE, outside |-> FALSE, cost |-> INT_MAX]}
      ELSE IF cell_b = cell_a THEN free
      ELSE UNION { IF p.stop
                   THEN {[stopped |-> TRUE, outside |-> TRUE, cost |-> INT_MAX]}
                   ELSE IF p.val = NOT_VISITED \/ cell_parents[cell_a] = cell_b
                   THEN {[f EXCEPT !.outside = @ \/ ~Valid(cd, cell_b)] : f \in free}
                   ELSE {[stopped |-> FALSE, outside |-> ~Valid(cd, cell_b),
                          cost |-> INT_MAX]} :
                   p \in unchecked_at(cd, cell_parents, cell_b, {NOT_VISITED, ROOT}) }

\* What a call of the agent with DetourStrategy::any ends in.
AnyStopped(a, planned, why) ==
  [stopped |-> TRUE, pos |-> a, step |-> INVALID, planned |-> planned, plan |-> why,
   dir |-> "none", outside |-> TRUE, cached_path |-> <<>>]

AnyReturned(a, b, planned, how, outside, cached) ==
  IF b \in (Int \X Int) /\ is_neighbor(b, a)
  THEN [stopped |-> FALSE, pos |-> a, step |-> b, planned |-> planned, plan |-> how,
        dir |-> CoordMinus(b, a), outside |-> outside, cached_path |-> cached]
  ELSE AnyStopped(a, planned, "Not a dir")

\* 3A: move in any other direction: the for loop over dirs from the direction
\* number i on; outside tells whether an earlier round indexed a grid outside
\* it. When the loop ends without a return the path is committed.
RECURSIVE detour_any(_, _, _, _, _, _, _)
detour_any(d, game, cell_parents, p, cached, i, outside) ==
  LET pos == snake_pos(game)
      pos2 == back(p)
  IN  IF i > Len(dirs)
      THEN {AnyReturned(pos, pos2, pos2, "path", outside, pop_back(p))}
      ELSE UNION {
             IF e.stopped THEN {AnyStopped(pos, pos2, "outside the grid")}
             ELSE IF e.cost # INT_MAX /\ CoordPlus(pos, dirs[i]) # pos2
             THEN {AnyReturned(pos, CoordPlus(pos, dirs[i]), pos2, "any",
                               outside \/ e.outside, <<>>)}
             ELSE detour_any(d, game, cell_parents, p, cached, i + 1,
                             outside \/ e.outside) :
             e \in cell_tree_edge_at(d, game, cell_parents, pos, dirs[i]) }

\* CellTreeAgent::operator() with detour = any (recalculate_path true,
\* lookahead many_move_tail), for one grid dists the search returned.
cell_tree_agent_any_step(d, cached, game, dists) ==
  LET pos == snake_pos(game)
      p == read_path(dists, pos, game.apple_pos, Size(d) + 2)
  IN  IF p = <<>> THEN {AnyStopped(pos, INVALID, "back of an empty path")}
      ELSE IF ~after_moves_assert(game, p) THEN {AnyStopped(pos, back(p), "assert")}
      ELSE IF cell_tree_unreachables(d, after_moves(game, p, "many_move_tail"), dists).any
      THEN detour_any(d, game, cell_tree_parents(d, game.snake), p, cached, 1, FALSE)
      ELSE {AnyReturned(pos, back(p), back(p), "path", FALSE, pop_back(p))}

cell_tree_agent_any(d, cached, game) ==
  LET pos == snake_pos(game)
      edge == cell_tree_edge(d, game, cell_tree_parents(d, game.snake))
  IN  UNION {cell_tree_agent_any_step(d, cached, game, dists) :
               dists \in astar_shortest_path(d, edge, pos, game.apple_pos, 1000)}

\* One round of the play loop with the agent configured with detour = any.
play_cell_tree_any ==
  /\ pc = "play"
  /\ state = "playing"
  /\ \E r \in cell_tree_agent_any(dims, cached_path, GameBase(grid, snake, apple_pos)) :
       /\ last' = [pos |-> r.pos, step |-> r.step, planned |-> r.planned,
                   plan |-> r.plan, dir |-> r.dir, outside |-> r.outside,
                   event |-> IF r.stopped THEN "none" ELSE move_event(r.dir)]
       /\ IF r.stopped
          THEN /\ pc' = "stopped"
               /\ UNCHANGED <<dims, treeVars, callVars, gameVars, cycle, cached_path>>
          ELSE /\ cached_path' = r.cached_path
               /\ move(r.dir)
               /\ UNCHANGED <<pc, dims, treeVars, callVars, cycle>>

NextCellTreeAny == play_cell_tree_any

SpecCellTreeAny == InitCellTreeEpisode /\ [][NextCellTreeAny]_vars

\* C21: whenever the agent with detour = any returns an alternative direction,
\* it leads to a coordinate inside the grid that is not occupied and is not the
\* planned first step, and at no tick does the agent index a grid with a
\* coordinate outside it.
C21_AnyDetourStaysInsideGrid ==
  turn > 0 \/ pc = "stopped" =>
    /\ ~last.outside
    /\ last.plan = "any" =>
         /\ Valid(dims, last.step)
         /\ last.event # "lose"
         /\ last.step # last.planned

\* C21, as the code behaves: an alternative direction found without indexing
\* a grid outside it leads to a coordinate inside the grid that is not occupied
\* and is not the planned first step.
C21_AnyDetourIsLegalWhenAskedInside ==
  (turn > 0 \/ pc = "stopped") /\ last.plan = "any" /\ ~last.outside =>
    /\ Valid(dims, last.step)
    /\ last.event # "lose"
    /\ last.step # last.planned

\* An alternative direction was returned by a head on the border of the grid
\* without any access outside the grid.
C21_Witness ==
  /\ turn > 0
  /\ last.plan = "any"
  /\ ~last.outside
  /\ last.event \in {"move", "eat"}
  /\ \E dir \in Dir : ~Valid(dims, CoordPlus(last.pos, dir))

\* --------------------------- the detour to the nearest unreachable coordinate

\* C22: whenever the agent with detour = nearest_unreachable answers with the
\* detour, its step goes to a neighbour of the head inside the grid that is
\* not occupied and that the cell tree allows from the head, and the cached
\* path is cleared; the agent never stops because first_step followed a
\* predecessor outside the grid or gave a coordinate that is no neighbour.
C22_DetourIsLegalFirstStep ==
  [][ /\ pc' = "stopped" => last'.plan \notin {"outside the grid", "Not a dir"}
      /\ turn' # turn /\ last'.plan = "detour" =>
           /\ last'.pos = snake[1]
           /\ is_neighbor(last'.step, snake[1])
           /\ last'.step = CoordPlus(snake[1], last'.dir)
           /\ Valid(dims, last'.step)
           /\ ~grid[last'.step]
           /\ can_move_in_cell_tree(cell_tree_parents(dims, snake), snake[1],
                                    last'.step, last'.dir)
           /\ cached_path' = <<>>
           /\ last'.event \in {"move", "eat"} ]_vars

\* The detour was taken by a snake of at least three coordinates that had a
\* cached path before, and the step did not go to the apple.
C22_Witness ==
  /\ turn > 0
  /\ last.plan = "detour"
  /\ last.event = "move"
  /\ Len(snake) >= 3
  /\ cached_path = <<>>

\* --------------------------- CellTreeAgent with recalculate_path = false

\* A use of the cached path that takes its front, the end of the plan.
follow_cached_front(pos, cached) ==
  AgentReturned(pos, cached[1], "follow", Tail(cached))

\* The first branch of CellTreeAgent::operator(): pos2 = cached_path.back();
\* cached_path.pop_back(); return pos2 - pos.
follow_cached(pos, cached) ==
  AgentReturned(pos, back(cached), "follow", pop_back(cached))

\* CellTreeAgent::operator() with recalculate_path = false, the rest of the
\* configuration at its defaults: a cached path that is not empty is followed,
\* otherwise the agent plans as in the default configuration.
cell_tree_agent_cached(d, cached, game) ==
  IF cached # <<>>
  THEN {follow_cached(snake_pos(game), cached)}
  ELSE cell_tree_agent(d, cached, game)

\* The rounds of an episode that are followed.
MaxCachedTurn == 18

\* One round of the play loop with recalculate_path = false. ret keeps the
\* path the agent committed last, as read_path gave it (its back is the first
\* step), and the number of its steps returned so far.
play_cell_tree_cached ==
  /\ pc = "play"
  /\ state = "playing"
  /\ turn < MaxCachedTurn
  /\ \E r \in cell_tree_agent_cached(dims, cached_path, GameBase(grid, snake, apple_pos)) :
       /\ last' = [pos |-> r.pos, step |-> r.step, plan |-> r.plan, dir |-> r.dir,
                   event |-> IF r.stopped THEN "none" ELSE move_event(r.dir)]
       /\ IF r.stopped
          THEN /\ pc' = "stopped"
               /\ UNCHANGED <<dims, treeVars, callVars, gameVars, cycle, cached_path>>
          ELSE /\ cached_path' = r.cached_path
               /\ ret' = IF r.plan = "path"
                         THEN [plan |-> Append(r.cached_path, r.step), used |-> 1,
                               target |-> apple_pos]
                         ELSE IF r.plan = "follow"
                         THEN [ret EXCEPT !.used = @ + 1]
                         ELSE <<>>
               /\ move(r.dir)
               /\ UNCHANGED <<pc, dims, treeVars, arg, cycle>>

NextCellTreeCached == play_cell_tree_cached

SpecCellTreeCached == InitCellTreeEpisode /\ [][NextCellTreeCached]_vars

\* C23: with recalculate_path = false, after the agent committed a path of n
\* steps and returned its first step, the following decisions return the
\* remaining steps in order without planning again, each of them a neighbour
\* of the head it is taken from, and the cached path is empty exactly when the
\* step taken reached the target of the plan, the apple of the commit.
C23_CommittedPlanIsFollowed ==
  /\ pc = "stopped" => last.plan # "Not a dir"
  /\ ret # <<>> /\ pc = "play" =>
       LET n == Len(ret.plan)
           k == ret.used
       IN  /\ k >= 1 /\ k <= n
           /\ ret.plan[1] = ret.target
           /\ cached_path = SubSeq(ret.plan, 1, n - k)
           /\ last.step = ret.plan[n - k + 1]
           /\ last.plan = (IF k = 1 THEN "path" ELSE "follow")
           /\ is_neighbor(last.step, last.pos)
           /\ snake[1] = last.step
           /\ last.event \in {"move", "eat"}
           /\ (cached_path = <<>>) <=> (last.step = ret.target)
           /\ (last.event = "eat") <=> (k = n)
  /\ ret = <<>> => cached_path = <<>>

\* The third step of a committed path of at least four was just returned from
\* the cache.
C23_Witness ==
  /\ ret # <<>>
  /\ Len(ret.plan) >= 4
  /\ ret.used = 3
  /\ last.plan = "follow"
  /\ Len(snake) >= 2

\* --------------------------- the shortcut of PerturbedHamiltonianCycle

\* The free neighbours b of the head inside the grid with
\* 1 < cycle_distance(head, b) <= m, the distance counted along the cycle.
ShortcutCandidates(m) ==
  {b \in {CoordPlus(snake[1], dir) : dir \in Dir} :
     /\ Valid(dims, b)
     /\ ~grid[b]
     /\ CycleSteps(dims, cycle, snake[1], b) > 1
     /\ CycleSteps(dims, cycle, snake[1], b) <= m}

\* C24: when max_shortcut is positive the agent moves to the free neighbour of
\* the head inside the grid that lies furthest along the cycle among those
\* with 1 < cycle_distance(head, b) <= max_shortcut, and to cycle[head] when
\* there is none.
C24_ShortcutIsFurthestWithinBound ==
  [][ (/\ pc = "play"
       /\ state = "playing"
       /\ Len(snake) <= (dims[1] * dims[2] * 50) \div 100
       /\ ShortcutBound > 0)
      => /\ pc' = "play"
         /\ last'.pos = snake[1]
         /\ IF ShortcutCandidates(ShortcutBound) = {}
            THEN last'.step = cycle[snake[1]]
            ELSE /\ last'.step \in ShortcutCandidates(ShortcutBound)
                 /\ \A b \in ShortcutCandidates(ShortcutBound) :
                      CycleSteps(dims, cycle, snake[1], b)
                        <= CycleSteps(dims, cycle, snake[1], last'.step) ]_vars

\* A snake of at least two coordinates took a shortcut that skipped at least
\* two coordinates of the cycle and did not eat.
C24_Witness ==
  /\ turn > 0
  /\ Len(snake) >= 2
  /\ last.event = "move"
  /\ last.step # cycle[last.pos]
  /\ CycleSteps(dims, cycle, last.pos, last.step) >= 3

\* --------------------------- after_moves as a function of its arguments

\* The grids, snakes and paths after_moves is applied to.
MaxAfterCells == 6
MaxAfterSnake == 3
MaxAfterPath == 3

AfterDims ==
  {p \in (1 .. MaxAfterCells) \X (1 .. MaxAfterCells) : p[1] * p[2] <= MaxAfterCells}

\* The paths of n steps read_path can give for a search from the head of the
\* game: the last entry is a free neighbour of the head, every entry before it
\* a free neighbour of the entry after it, no coordinate twice.
RECURSIVE PathsFrom(_, _, _)
PathsFrom(d, game, n) ==
  IF n = 1
  THEN {<<c>> : c \in {e \in Coords(d) : is_neighbor(e, snake_pos(game)) /\ ~game.grid[e]}}
  ELSE UNION { { <<c>> \o p : c \in { e \in Coords(d) :
                                       /\ is_neighbor(e, p[1])
                                       /\ ~game.grid[e]
                                       /\ \A i \in 1 .. Len(p) : p[i] # e } }
               : p \in PathsFrom(d, game, n - 1) }

\* A game of GameBase: the grid marks the snake, the apple is on a free
\* coordinate; and a path and a lookahead for the call.
InitAfterMoves ==
  /\ dims \in AfterDims
  /\ \E n \in 1 .. MaxAfterSnake : snake \in SnakesOn(dims, n)
  /\ grid = [c \in Coords(dims) |-> \E i \in 1 .. Len(snake) : snake[i] = c] @@ <<>>
  /\ apple_pos \in {c \in Coords(dims) : ~grid[c]}
  /\ \E n \in 1 .. MaxAfterPath :
       \E p \in PathsFrom(dims, GameBase(grid, snake, apple_pos), n) :
         \E lookahead \in {"one", "many_keep_tail", "many_move_tail"} :
           arg = [path |-> p, lookahead |-> lookahead]
  /\ ret = <<>>
  /\ turn = 0
  /\ state = "none"
  /\ cycle = <<>> /\ cached_path = <<>> /\ last = <<>>
  /\ pc = "after_moves"
  /\ TreeIdle

\* after = after_moves(game, path, lookahead); game is passed by const
\* reference and is not written.
call_after_moves ==
  /\ pc = "after_moves"
  /\ after_moves_assert(GameBase(grid, snake, apple_pos), arg.path)
  /\ ret' = after_moves(GameBase(grid, snake, apple_pos), arg.path, arg.lookahead)
  /\ pc' = "done"
  /\ UNCHANGED <<dims, treeVars, arg, gameVars, agentVars>>

NextAfterMoves == call_after_moves

SpecAfterMoves == InitAfterMoves /\ [][NextAfterMoves]_vars

\* The number of entries of the path p that are not the coordinate a.
RECURSIVE CountNot(_, _)
CountNot(p, a) ==
  IF p = <<>> THEN 0
  ELSE (IF p[1] # a THEN 1 ELSE 0) + CountNot(Tail(p), a)

\* C25: the state after_moves returns has a grid that marks exactly the
\* coordinates of its snake and the apple of the game; its snake is the body
\* with path.back() as the new head for lookahead one, the body extended by
\* the whole path with path.front() as head for many_keep_tail, and for
\* many_move_tail the body moved along the whole path, the tail removed once
\* for every step that does not go to the apple.
C25_AfterMovesSnakeAndGrid ==
  pc = "done" =>
    /\ ret.apple_pos = apple_pos
    /\ DOMAIN ret.grid = Coords(dims)
    /\ \A c \in Coords(dims) : ret.grid[c] <=> \E i \in 1 .. Len(ret.snake) : ret.snake[i] = c
    /\ \A i, j \in 1 .. Len(ret.snake) : ret.snake[i] = ret.snake[j] => i = j
    /\ arg.lookahead = "one" => ret.snake = <<arg.path[Len(arg.path)]>> \o snake
    /\ arg.lookahead = "many_keep_tail" =>
         /\ ret.snake = arg.path \o snake
         /\ Len(ret.snake) = Len(snake) + Len(arg.path)
         /\ ret.snake[1] = arg.path[1]
    /\ arg.lookahead = "many_move_tail" =>
         ret.snake = SubSeq(arg.path \o snake, 1,
                            Len(snake) + Len(arg.path) - CountNot(arg.path, apple_pos))

\* The snake was moved along a path of three steps that ends on the apple, and
\* grew by one.
C25_Witness ==
  /\ pc = "done"
  /\ arg.lookahead = "many_move_tail"
  /\ Len(arg.path) = 3
  /\ arg.path[1] = apple_pos
  /\ Len(snake) >= 2
  /\ Len(ret.snake) = Len(snake) + 1

\* --------------------------- the first step of the plan of the repair agent

\* C26: at every tick of an episode driven by DynamicHamiltonianCycleRepair
\* the first step of the plan, path.back(), is a neighbour of the head inside
\* the grid, so that the agent never stops in the assertion of after_moves or
\* in those of repair_cycle, and no grid is indexed at (-1,-1).
C26_PlanStartsNextToHead ==
  /\ pc # "stopped"
  /\ turn > 0 =>
       /\ last.step # NOT_VISITED
       /\ Valid(dims, last.step)
       /\ is_neighbor(last.step, last.pos)

\* A snake that fills at least half of the grid planned a first step that is
\* not the next coordinate of the cycle it had, and the repair failed.
C26_Witness ==
  /\ turn > 0
  /\ 2 * Len(snake) >= Size(dims)
  /\ last.repair = "failed"
  /\ last.step # CoordPlus(last.pos, last.dir)
  /\ is_neighbor(last.step, last.pos)

\* --------------------------- the snake on the cycle the repair agent keeps

\* C30: at every tick of an episode driven by DynamicHamiltonianCycleRepair
\* the body of the snake lies along the cycle the agent keeps: for every two
\* consecutive coordinates of the body cycle[older] = newer, for the body
\* before the move under the cycle as the agent leaves it (repaired or not),
\* and for the body after the move; so cycle[head] is free while the snake is
\* shorter than the grid.
C30_BodyLiesAlongCycle ==
  [][ /\ \A i \in 2 .. Len(snake) : cycle'[snake[i]] = snake[i - 1]
      /\ cycle'[snake[1]] = snake'[1]
      /\ \A i \in 2 .. Len(snake') : cycle'[snake'[i]] = snake'[i - 1]
      /\ Len(snake') < Size(dims) =>
           /\ Valid(dims, cycle'[snake'[1]])
           /\ ~grid'[cycle'[snake'[1]]] ]_vars

\* A snake of at least four coordinates moved after a repair that changed the
\* cycle.
C30_Witness ==
  /\ turn > 0
  /\ Len(snake) >= 4
  /\ Len(snake) < Size(dims)
  /\ last.repair = "ok"
  /\ last.event = "move"
  /\ cycle # tree_to_hamiltonian_cycle(CellDims(dims), comb_tree(CellDims(dims)))
  /\ cycle[snake[2]] = snake[1]

\* --------------------------- episodes of PerturbedHamiltonianCycle

\* C27: in every episode driven by PerturbedHamiltonianCycle from a snake of
\* length 1 and a Hamiltonian cycle, for every apple placement, the coordinate
\* the agent moves the head to is inside the grid and is not occupied: no
\* episode is lost by a move off the grid or onto the snake.
C27_ShortcutsNeverCollide ==
  /\ pc = "play"
  /\ state = "loss" => Valid(dims, last.step) /\ ~grid[last.step]

\* C27, as the code behaves: the coordinate moved to is always a neighbour of
\* the head inside the grid, a shortcut always goes to a free coordinate, and
\* when the head is moved onto the snake it is by the step along the cycle.
C27_OnlyCycleStepsCollide ==
  /\ pc = "play"
  /\ turn > 0 =>
       /\ Valid(dims, last.step)
       /\ is_neighbor(last.step, last.pos)
       /\ state = "loss" /\ grid[last.step] => last.step = cycle[last.pos]

\* After a shortcut and apples found on the way, the step along the cycle ran
\* into the tail of the snake.
C27_Witness ==
  /\ state = "loss"
  /\ last.event = "lose"
  /\ last.step = cycle[last.pos]
  /\ last.step = back(snake)
  /\ turn <= Size(dims)
  /\ \E i \in 2 .. Len(snake) : cycle[snake[i]] # snake[i - 1]

\* --------------------------- Game::move called in any state of the game

\* A Game::move that reports the event of the move in every state.
move_returns_event(dir) == move_event(dir)

\* The Event Game::move(dir) returns: none when the game is not being played.
move_returns(dir) == IF state # "playing" THEN "none" ELSE move_event(dir)

\* Game::Game with any start and any apple.
InitGame ==
  /\ dims \in MoveDims
  /\ \E start \in Coords(dims) :
       /\ snake = <<start>>
       /\ grid = [NewGrid(dims, FALSE) EXCEPT ![start] = TRUE]
  /\ apple_pos \in random_free_coord(dims, grid)
  /\ turn = 0
  /\ state = "playing"
  /\ arg = <<>>
  /\ ret = "none"
  /\ cycle = <<>> /\ cached_path = <<>> /\ last = <<>>
  /\ pc = "move"
  /\ TreeIdle

\* A call of Game::move(dir) with any direction, in any state of the game;
\* ret is the Event returned.
call_move ==
  /\ pc = "move"
  /\ \E dir \in Dir :
       /\ ret' = move_returns(dir)
       /\ move(dir)
  /\ UNCHANGED <<pc, dims, treeVars, arg, agentVars>>

NextGame == call_move

SpecGame == InitGame /\ [][NextGame]_vars

\* The grid marks exactly the coordinates of the snake, and while the game is
\* played the apple is on a free coordinate inside the grid.
GridMarksSnake ==
  /\ DOMAIN grid = Coords(dims)
  /\ \A c \in Coords(dims) : grid[c] <=> \E i \in 1 .. Len(snake) : snake[i] = c
  /\ state = "playing" => Valid(dims, apple_pos) /\ ~grid[apple_pos]

\* C28: in every state reached by calls of Game::move the grid marks exactly
\* the coordinates of the snake and, while the game is played, the apple is
\* on a free coordinate inside the grid; a call made when the game is won or
\* lost returns Event::none and changes nothing.
C28_GridMarksSnakeAndEndIsFinal ==
  /\ GridMarksSnake
  /\ [][ /\ GridMarksSnake'
         /\ state # "playing" => ret' = "none" /\ UNCHANGED gameVars ]_vars

\* Game::move was called after the game was lost to a collision by a snake of
\* at least three coordinates.
C28_Witness ==
  /\ state = "loss"
  /\ ret = "none"
  /\ Len(snake) >= 3
  /\ turn < Size(dims) * Size(dims)

\* --------------------------- episodes of FixedCycleAgent

\* An agent that leaves the cycle for an apple next to the head.
fixed_cycle_agent_greedy(cyc, game) ==
  IF is_neighbor(game.apple_pos, snake_pos(game)) THEN game.apple_pos
  ELSE cyc[snake_pos(game)]

\* FixedCycleAgent::operator(): the coordinate path[c] of the head c; the
\* direction returned is path[c] - c.
fixed_cycle_agent(cyc, game) == cyc[snake_pos(game)]

\* The even grids of at most MaxFixedCells cells of 2 x 2.
MaxFixedCells == 2

FixedDims ==
  {<<2 * cw, 2 * ch>> : <<cw, ch>> \in
     {p \in (1 .. MaxFixedCells) \X (1 .. MaxFixedCells) : p[1] * p[2] <= MaxFixedCells}}

\* Game::Game with any start and any apple, and an agent constructed with any
\* Hamiltonian cycle of the grid.
InitFixed ==
  /\ dims \in FixedDims
  /\ cycle \in HamiltonianCycles(dims)
  /\ \E start \in Coords(dims) :
       /\ snake = <<start>>
       /\ grid = [NewGrid(dims, FALSE) EXCEPT ![start] = TRUE]
  /\ apple_pos \in random_free_coord(dims, grid)
  /\ turn = 0
  /\ state = "playing"
  /\ cached_path = <<>>
  /\ last = NoTick
  /\ pc = "play"
  /\ TreeIdle
  /\ CallIdle

\* One round of the play loop: game.move(agent(game)); operator - throws when
\* the two coordinates are not neighbours.
play_fixed ==
  /\ pc = "play"
  /\ state = "playing"
  /\ \E pos \in {snake[1]},
        next \in {fixed_cycle_agent(cycle, GameBase(grid, snake, apple_pos))} :
         IF is_neighbor(next, pos)
         THEN /\ last' = [pos |-> pos, step |-> next, repair |-> "none",
                          dir |-> CoordMinus(next, pos),
                          event |-> move_event(CoordMinus(next, pos))]
              /\ move(CoordMinus(next, pos))
              /\ UNCHANGED <<pc, dims, treeVars, callVars, cycle, cached_path>>
         ELSE /\ pc' = "stopped"
              /\ UNCHANGED <<dims, treeVars, callVars, gameVars, agentVars>>

NextFixed == play_fixed

SpecFixed == InitFixed /\ [][NextFixed]_vars

\* The play loop of the program runs until the game is done: a round that can
\* be played is played.
SpecFixedFair == InitFixed /\ [][NextFixed]_vars /\ WF_vars(play_fixed)

\* C29: driven by FixedCycleAgent with a Hamiltonian cycle, from any snake of
\* length 1 on an even grid and for every apple placement, the game is
\* eventually won with a snake that fills the grid; the snake never collides
\* and the turn limit of (W*H)^2 is never reached.
C29_FixedCycleEventuallyWins ==
  /\ <>(state = "win" /\ Len(snake) = Size(dims))
  /\ [](/\ pc = "play"
        /\ state # "loss"
        /\ turn <= Size(dims) * Size(dims)
        /\ last.event # "lose")

\* The game was won after the snake went around the cycle more than twice.
C29_Witness ==
  /\ state = "win"
  /\ Len(snake) = Size(dims)
  /\ last.event = "eat"
  /\ turn > 2 * Size(dims)

====
